---------------------------- MODULE Spec2Model ----------------------------
(***************************************************************************)
(* A model of the Mindhive dialogue engine:                                *)
(*   - the sequential outlet bot        (Question_1/sequential_conversation.py) *)
(*   - the planner and planner-driven bot (Question_2/planner.py, agentic_bot.py) *)
(*   - the calculator tool adapter      (Question_3/calculator_tool.py)    *)
(* Python strings are sequences of one-character strings, so that          *)
(* substring tests and regular expressions are computed, not assumed.      *)
(* Wall-clock timestamps are left out: no operation reads them back.       *)
(***************************************************************************)
EXTENDS Integers, Sequences, FiniteSets, TLC

---------------------------------------------------------------------------
(* Text primitives: str.lower, str.strip, str.split, `in`, and the pieces   *)
(* of Python's re needed by the patterns of the source.                    *)

UpperCase ==
    <<"A","B","C","D","E","F","G","H","I","J","K","L","M",
      "N","O","P","Q","R","S","T","U","V","W","X","Y","Z">>

LowerCase ==
    <<"a","b","c","d","e","f","g","h","i","j","k","l","m",
      "n","o","p","q","r","s","t","u","v","w","x","y","z">>

Digits == {"0","1","2","3","4","5","6","7","8","9"}

Whitespace == {" ", "\t", "\n"}

Letters == {UpperCase[i] : i \in 1..26} \cup {LowerCase[i] : i \in 1..26}

\* \w of re
WordChars == Letters \cup Digits \cup {"_"}

\* [\+\-\*\/]
Operators == {"+", "-", "*", "/"}

LowerChar(c) ==
    IF \E i \in 1..26 : UpperCase[i] = c
    THEN LowerCase[CHOOSE i \in 1..26 : UpperCase[i] = c]
    ELSE c

\* F(v), with v evaluated once
Bind(v, F(_)) == CHOOSE r \in {F(x) : x \in {v}} : TRUE

\* str.lower()
Lower(text) == Bind(text, LAMBDA t : [i \in 1..Len(t) |-> LowerChar(t[i])])

\* `w in t` for strings
Contains(t, w) ==
    \E i \in 1..(Len(t) - Len(w) + 1) :
        \A k \in 1..Len(w) : t[i + k - 1] = w[k]

ContainsAny(t, ws) == \E w \in ws : Contains(t, w)

\* `not s or not s.strip()`
IsBlank(t) == \A i \in 1..Len(t) : t[i] \in Whitespace

\* str.strip()
Strip(t) ==
    IF IsBlank(t) THEN << >>
    ELSE LET a == CHOOSE i \in 1..Len(t) :
                      t[i] \notin Whitespace /\ \A j \in 1..(i - 1) : t[j] \in Whitespace
             b == CHOOSE i \in 1..Len(t) :
                      t[i] \notin Whitespace /\ \A j \in (i + 1)..Len(t) : t[j] \in Whitespace
         IN  SubSeq(t, a, b)

\* len(s.split()): the number of maximal runs of non-whitespace
WordCount(t) ==
    Cardinality({i \in 1..Len(t) :
        t[i] \notin Whitespace /\ (i = 1 \/ t[i - 1] \in Whitespace)})

(* A regular expression is matched by following sets of positions: a       *)
(* position p is "before t[p]", 1..Len(t)+1.  Each operator maps the set of *)
(* positions reached so far to the set reached after one more pattern item. *)
Positions(t) == 1..(Len(t) + 1)

\* a literal
ReLit(t, P, w) ==
    {p + Len(w) : p \in {q \in P :
        /\ q + Len(w) - 1 <= Len(t)
        /\ \A k \in 1..Len(w) : t[q + k - 1] = w[k]}}

\* one character of a class
ReOne(t, P, class) == {p + 1 : p \in {q \in P : q <= Len(t) /\ t[q] \in class}}

\* class*
ReStar(t, P, class) ==
    UNION {{q \in p..(Len(t) + 1) : \A k \in p..(q - 1) : t[k] \in class} : p \in P}

\* class+
RePlus(t, P, class) == ReStar(t, ReOne(t, P, class), class)

\* item? for a literal
ReOptLit(t, P, w) == UNION {{p} \cup ReLit(t, {p}, w) : p \in P}

\* .* (no newline)
ReDotStar(t, P) ==
    UNION {{q \in p..(Len(t) + 1) : \A k \in p..(q - 1) : t[k] # "\n"} : p \in P}

IsWordAt(t, p) == p >= 1 /\ p <= Len(t) /\ t[p] \in WordChars

\* \b
ReBoundary(t, P) == {p \in P : IsWordAt(t, p - 1) # IsWordAt(t, p)}

---------------------------------------------------------------------------
(* Question_1: the outlet catalog and the entity extractor.                *)

\* OutletInfo: the name is text the handlers search; the other fields are
\* only copied into replies.
OutletInfo(name, location, opening_time, closing_time, phone, address) ==
    [name |-> name, location |-> location, opening_time |-> opening_time,
     closing_time |-> closing_time, phone |-> phone, address |-> address]

SS2OutletName == <<"S","S"," ","2"," ","O","u","t","l","e","t">>

PJCentralOutletName == <<"P","J"," ","C","e","n","t","r","a","l"," ","O","u","t","l","e","t">>

KLCCOutletName == <<"K","L","C","C"," ","O","u","t","l","e","t">>

OUTLETS_DB ==
    [loc \in {"petaling_jaya", "kuala_lumpur"} |->
        IF loc = "petaling_jaya"
        THEN << OutletInfo(SS2OutletName, "SS 2, Petaling Jaya", "9:00 AM", "10:00 PM",
                           "+603-1234-5678", "123 SS 2/4, Petaling Jaya, Selangor"),
                OutletInfo(PJCentralOutletName, "PJ Central, Petaling Jaya", "10:00 AM",
                           "9:00 PM", "+603-2345-6789",
                           "456 PJ Central Mall, Petaling Jaya, Selangor") >>
        ELSE << OutletInfo(KLCCOutletName, "KLCC, Kuala Lumpur", "10:00 AM", "10:00 PM",
                           "+603-3456-7890", "789 KLCC Mall, Kuala Lumpur") >>]

\* the keys of raw_location_patterns, in dict order
LocationKeys == <<"petaling_jaya", "kuala_lumpur", "ss2", "pj_central", "klcc">>

\* the keys of raw_intent_patterns, in dict order
IntentKeys == <<"outlet_inquiry", "opening_time", "location", "phone">>

\* pattern.search(text) for a location pattern; t is the text lowered (re.I)
LocationSearch(key, t) ==
    LET P == Positions(t) IN
    CASE key = "petaling_jaya" ->
            \* (petaling\s+jaya|pj|ss\s*\d+)
            \/ ReLit(t, RePlus(t, ReLit(t, P, <<"p","e","t","a","l","i","n","g">>), Whitespace), <<"j","a","y","a">>) # {}
            \/ ReLit(t, P, <<"p","j">>) # {}
            \/ RePlus(t, ReStar(t, ReLit(t, P, <<"s","s">>), Whitespace), Digits) # {}
      [] key = "kuala_lumpur" ->
            \* (kuala\s+lumpur|kl|klcc)
            \/ ReLit(t, RePlus(t, ReLit(t, P, <<"k","u","a","l","a">>), Whitespace), <<"l","u","m","p","u","r">>) # {}
            \/ ReLit(t, P, <<"k","l">>) # {}
            \/ ReLit(t, P, <<"k","l","c","c">>) # {}
      [] key = "ss2" ->
            \* ss\s*2
            ReLit(t, ReStar(t, ReLit(t, P, <<"s","s">>), Whitespace), <<"2">>) # {}
      [] key = "pj_central" ->
            \* pj\s+central
            ReLit(t, RePlus(t, ReLit(t, P, <<"p","j">>), Whitespace), <<"c","e","n","t","r","a","l">>) # {}
      [] key = "klcc" ->
            ReLit(t, P, <<"k","l","c","c">>) # {}

\* pattern.search(text) for an intent pattern; t is the text lowered (re.I)
IntentSearch(key, t) ==
    LET P == Positions(t) IN
    CASE key = "outlet_inquiry" ->
            \* (outlets?|stores?|shops?|branch(es)?)
            \/ ReOptLit(t, ReLit(t, P, <<"o","u","t","l","e","t">>), <<"s">>) # {}
            \/ ReOptLit(t, ReLit(t, P, <<"s","t","o","r","e">>), <<"s">>) # {}
            \/ ReOptLit(t, ReLit(t, P, <<"s","h","o","p">>), <<"s">>) # {}
            \/ ReOptLit(t, ReLit(t, P, <<"b","r","a","n","c","h">>), <<"e","s">>) # {}
      [] key = "opening_time" ->
            \* (opening|open|time|hours|when|closing)
            ContainsAny(t, {<<"o","p","e","n","i","n","g">>, <<"o","p","e","n">>, <<"t","i","m","e">>, <<"h","o","u","r","s">>, <<"w","h","e","n">>,
                            <<"c","l","o","s","i","n","g">>})
      [] key = "location" ->
            \* (where|location|address|located|exactly)
            ContainsAny(t, {<<"w","h","e","r","e">>, <<"l","o","c","a","t","i","o","n">>, <<"a","d","d","r","e","s","s">>, <<"l","o","c","a","t","e","d">>,
                            <<"e","x","a","c","t","l","y">>})
      [] key = "phone" ->
            \* (phone|number|contact|call)
            ContainsAny(t, {<<"p","h","o","n","e">>, <<"n","u","m","b","e","r">>, <<"c","o","n","t","a","c","t">>, <<"c","a","l","l">>})

\* EntityExtractor.extract
extract(text) ==
    Bind(Lower(text), LAMBDA t :
        [locations |-> SelectSeq(LocationKeys, LAMBDA k : LocationSearch(k, t)),
         intents   |-> SelectSeq(IntentKeys, LAMBDA k : IntentSearch(k, t)),
         raw_text  |-> text])

\* `x in list`
InList(x, list) == \E i \in 1..Len(list) : list[i] = x

---------------------------------------------------------------------------
(* Question_1: what the handlers read off the utterance text.              *)

UpperChar(c) ==
    IF \E i \in 1..26 : LowerCase[i] = c
    THEN UpperCase[CHOOSE i \in 1..26 : LowerCase[i] = c]
    ELSE c

\* str.title()
Title(text) ==
    Bind(text, LAMBDA t :
        [i \in 1..Len(t) |->
            IF i = 1 \/ t[i - 1] \notin Letters THEN UpperChar(t[i]) ELSE LowerChar(t[i])])

SetMax(S) == CHOOSE x \in S : \A y \in S : y <= x

SetMin(S) == CHOOSE x \in S : \A y \in S : x <= y

\* "actually" in user_input.lower() or "what about" in user_input.lower()
HasSwitchMarker(user_input) ==
    Bind(Lower(user_input), LAMBDA t : ContainsAny(t, {<<"a","c","t","u","a","l","l","y">>, <<"w","h","a","t"," ","a",
                                                                       "b","o","u","t">>}))

\* any(word in user_input.lower() for word in ["thanks", "thank you", "bye", "goodbye"])
HasFarewell(user_input) ==
    Bind(Lower(user_input), LAMBDA t :
        ContainsAny(t, {<<"t","h","a","n","k","s">>, <<"t","h","a","n","k"," ","y","o","u">>, <<"b","y","e">>, <<"g","o","o","d","b","y","e">>}))

\* re.search(r"outlet[s]?\s+in\s+([A-Za-z\s]+)\??", user_input, re.I): the positions
\* after "outlet[s]?\s+in\s+" of a match that starts at i
UnknownPrefix(t, i) ==
    RePlus(t, ReLit(t, RePlus(t, ReOptLit(t, ReLit(t, {i}, <<"o","u","t","l","e","t">>), <<"s">>), Whitespace),
                    <<"i","n">>), Whitespace)

\* m and m.group(1).strip().title(): the match is the leftmost one; \s+ is greedy and
\* gives whitespace back to the group only when no letter follows it
UnknownLocation(user_input) ==
    Bind(Lower(user_input), LAMBDA t :
        LET class  == Letters \cup Whitespace
            starts == {i \in Positions(t) : ReOne(t, UnknownPrefix(t, i), class) # {}}
        IN  IF starts = {} THEN [found |-> FALSE, unknown |-> << >>]
            ELSE LET i == SetMin(starts)
                     a == SetMax({p \in UnknownPrefix(t, i) : ReOne(t, {p}, class) # {}})
                     b == SetMax(RePlus(t, {a}, class))
                 IN  [found |-> TRUE,
                      unknown |-> Title(Strip(SubSeq(user_input, a, b - 1)))])

\* any(re.search(pattern, user_lower) for pattern in outlet_patterns[outlet_name])
OutletPatternSearch(outlet_name, t) ==
    LET B == ReBoundary(t, Positions(t)) IN
    CASE outlet_name = SS2OutletName ->
            \* \bss\s*2\b, \bss2\b
            \/ ReBoundary(t, ReLit(t, ReStar(t, ReLit(t, B, <<"s","s">>), Whitespace), <<"2">>)) # {}
            \/ ReBoundary(t, ReLit(t, B, <<"s","s","2">>)) # {}
      [] outlet_name = PJCentralOutletName ->
            \* \bpj\s+central\b, \bpj\s*central\b, \bcentral\b
            \/ ReBoundary(t, ReLit(t, RePlus(t, ReLit(t, B, <<"p","j">>), Whitespace),
                                   <<"c","e","n","t","r","a","l">>)) # {}
            \/ ReBoundary(t, ReLit(t, ReStar(t, ReLit(t, B, <<"p","j">>), Whitespace),
                                   <<"c","e","n","t","r","a","l">>)) # {}
            \/ ReBoundary(t, ReLit(t, B, <<"c","e","n","t","r","a","l">>)) # {}
      [] outlet_name = KLCCOutletName ->
            \* \bklcc\b
            ReBoundary(t, ReLit(t, B, <<"k","l","c","c">>)) # {}
      [] OTHER -> FALSE

\* a validation that looks for "ss 2" only
SS2ValidationNamedOnly(t) ==
    LET B     == ReBoundary(t, Positions(t))
        gap   == ReStar(t, ReLit(t, B, <<"s","s">>), Whitespace)
    IN  ReBoundary(t, ReLit(t, gap, <<"2">>)) # {}

\* re.search(r'\bss\s*2\b', t) and not re.search(r'\bss\s*(?!2\b)\d+', t)
SS2Validation(t) ==
    LET B     == ReBoundary(t, Positions(t))
        gap   == ReStar(t, ReLit(t, B, <<"s","s">>), Whitespace)
        not2  == {p \in gap : ~(ReBoundary(t, ReLit(t, {p}, <<"2">>)) # {})}
    IN  /\ ReBoundary(t, ReLit(t, gap, <<"2">>)) # {}
        /\ RePlus(t, not2, Digits) = {}

\* the body of the loop over outlets: whether this outlet becomes selected_outlet
OutletMatches(outlet_name, t) ==
    /\ OutletPatternSearch(outlet_name, t)
    /\ Contains(outlet_name, SS2OutletName) => SS2Validation(t)

\* everything the handlers read off one utterance
UtteranceFacts(user_input) ==
    Bind(Lower(user_input), LAMBDA lower :
        [user_input    |-> user_input,
         entities      |-> extract(user_input),
         switch_marker |-> HasSwitchMarker(user_input),
         says_ss2      |-> Contains(lower, <<"s","s"," ","2">>),
         says_klcc     |-> Contains(lower, <<"k","l","c","c">>),
         farewell      |-> HasFarewell(user_input),
         unknown       |-> UnknownLocation(user_input),
         matching      |-> Bind(Strip(lower), LAMBDA user_lower :
                               {n \in {SS2OutletName, PJCentralOutletName, KLCCOutletName} :
                                   OutletMatches(n, user_lower)})])

---------------------------------------------------------------------------
(* Question_1: ConversationMemory and the state handlers.  A handler takes *)
(* the memory m and the utterance facts f and yields the memory after it   *)
(* and the reply: [m |-> ..., response |-> ...].  A reply is its template   *)
(* and the values the template is filled with.                             *)

INITIAL == "initial"

LOCATION_INQUIRY == "location_inquiry"

OUTLET_SELECTION == "outlet_selection"

INFORMATION_REQUEST == "information_request"

COMPLETED == "completed"

\* class ConversationState of Question_1
ConversationState ==
    {INITIAL, LOCATION_INQUIRY, OUTLET_SELECTION, INFORMATION_REQUEST, COMPLETED}

\* ConversationMemory.__init__; the session id is the uuid drawn for it
NewConversationMemory(uuid) ==
    [turns             |-> << >>,
     current_state     |-> INITIAL,
     context_variables |-> << >>,
     session_id        |-> uuid,
     outlets_db        |-> OUTLETS_DB]

\* dict[key] = value
DictPut(d, key, value) ==
    [k \in DOMAIN d \cup {key} |-> IF k = key THEN value ELSE d[k]]

update_context(m, key, value) ==
    [m EXCEPT !.context_variables = DictPut(@, key, value)]

\* get_context(key) is not None
has_context(m, key) == key \in DOMAIN m.context_variables

get_context(m, key) == m.context_variables[key]

set_state(m, new_state) == [m EXCEPT !.current_state = new_state]

\* an add_turn that numbers turns from 0
add_turn_from_zero(m, user_input, bot_response, extracted_entities) ==
    [m EXCEPT !.turns = Append(@,
        [turn_id            |-> Len(m.turns),
         user_input         |-> user_input,
         bot_response       |-> bot_response,
         state              |-> m.current_state,
         extracted_entities |-> extracted_entities,
         context_variables  |-> m.context_variables])]

\* an add_turn that stores the context dict itself, not a copy: every recorded turn
\* shows the context as it is now
add_turn_sharing_context(m, user_input, bot_response, extracted_entities) ==
    [m EXCEPT !.turns = Append(
        [i \in 1..Len(m.turns) |->
            [m.turns[i] EXCEPT !.context_variables = m.context_variables]],
        [turn_id            |-> Len(m.turns) + 1,
         user_input         |-> user_input,
         bot_response       |-> bot_response,
         state              |-> m.current_state,
         extracted_entities |-> extracted_entities,
         context_variables  |-> m.context_variables])]

\* ConversationMemory.add_turn
add_turn(m, user_input, bot_response, extracted_entities) ==
    [m EXCEPT !.turns = Append(@,
        [turn_id            |-> Len(m.turns) + 1,
         user_input         |-> user_input,
         bot_response       |-> bot_response,
         state              |-> m.current_state,
         extracted_entities |-> extracted_entities,
         context_variables  |-> m.context_variables])]

Handled(m, response) == [m |-> m, response |-> response]

\* [outlet.name for outlet in outlets]
OutletNames(outlets) == [i \in 1..Len(outlets) |-> outlets[i].name]

\* any(intent in entities["intents"] for intent in ("opening_time", "phone", "location"))
AsksInfo(f) ==
    \E intent \in {"opening_time", "phone", "location"} : InList(intent, f.entities.intents)

\* next((outlet for outlet in outlets if text in outlet.name), None): its index, 0 for None
FirstNamed(outlets, text) ==
    IF \E i \in 1..Len(outlets) : Contains(outlets[i].name, text)
    THEN SetMin({i \in 1..Len(outlets) : Contains(outlets[i].name, text)})
    ELSE 0

\* a _handle_information_request that answers a question before it looks for a farewell
_handle_information_request_question_first(m, f) ==
    IF ~has_context(m, "selected_outlet")
    THEN Handled(m, [kind |-> "need_outlet_first"])
    ELSE LET selected_outlet == get_context(m, "selected_outlet") IN
         IF InList("opening_time", f.entities.intents)
         THEN Handled(m, [kind |-> "opening_hours", outlet |-> selected_outlet.name,
                          opens |-> selected_outlet.opening_time,
                          closes |-> selected_outlet.closing_time])
         ELSE IF InList("location", f.entities.intents)
         THEN Handled(m, [kind |-> "address", outlet |-> selected_outlet.name,
                          address |-> selected_outlet.address])
         ELSE IF InList("phone", f.entities.intents)
         THEN Handled(m, [kind |-> "phone", outlet |-> selected_outlet.name,
                          phone |-> selected_outlet.phone])
         ELSE IF f.farewell
         THEN Handled(set_state(m, COMPLETED), [kind |-> "youre_welcome"])
         ELSE Handled(m, [kind |-> "all_information", outlet |-> selected_outlet.name,
                          address |-> selected_outlet.address,
                          opens |-> selected_outlet.opening_time,
                          closes |-> selected_outlet.closing_time,
                          phone |-> selected_outlet.phone])

\* SequentialConversationBot._handle_information_request
_handle_information_request(m, f) ==
    IF ~has_context(m, "selected_outlet")
    THEN Handled(m, [kind |-> "need_outlet_first"])
    ELSE LET selected_outlet == get_context(m, "selected_outlet") IN
         IF f.farewell
         THEN Handled(set_state(m, COMPLETED), [kind |-> "youre_welcome"])
         ELSE IF InList("opening_time", f.entities.intents)
         THEN Handled(m, [kind |-> "opening_hours", outlet |-> selected_outlet.name,
                          opens |-> selected_outlet.opening_time,
                          closes |-> selected_outlet.closing_time])
         ELSE IF InList("location", f.entities.intents)
         THEN Handled(m, [kind |-> "address", outlet |-> selected_outlet.name,
                          address |-> selected_outlet.address])
         ELSE IF InList("phone", f.entities.intents)
         THEN Handled(m, [kind |-> "phone", outlet |-> selected_outlet.name,
                          phone |-> selected_outlet.phone])
         ELSE Handled(m, [kind |-> "all_information", outlet |-> selected_outlet.name,
                          address |-> selected_outlet.address,
                          opens |-> selected_outlet.opening_time,
                          closes |-> selected_outlet.closing_time,
                          phone |-> selected_outlet.phone])

\* the shared tail of the handlers once a region's outlet list is known:
\* more than one outlet asks which one, a single outlet is selected at once
AnswerRegion(m, location, kind_many, kind_one) ==
    LET outlets == m.outlets_db[location] IN
    IF Len(outlets) > 1
    THEN Handled(set_state(m, OUTLET_SELECTION),
                 [kind |-> kind_many, location |-> location, outlets |-> OutletNames(outlets)])
    ELSE Handled(update_context(set_state(m, INFORMATION_REQUEST), "selected_outlet",
                                outlets[1]),
                 [kind |-> kind_one, outlet |-> outlets[1].name,
                  location |-> outlets[1].location])

\* a dispatch that asks which outlet is meant when the inquiry names no location
InitialDispatchAsksOutlet(m, f) ==
    LET locations == f.entities.locations IN
    IF InList("outlet_inquiry", f.entities.intents)
    THEN IF InList("petaling_jaya", locations)
         THEN AnswerRegion(update_context(m, "inquiry_location", "petaling_jaya"),
                           "petaling_jaya", "yes_which_outlet", "yes_one_outlet")
         ELSE IF Len(locations) > 0
         THEN LET location == locations[1]
                  m1 == update_context(m, "inquiry_location", location)
              IN  IF location \in DOMAIN m1.outlets_db
                  THEN AnswerRegion(m1, location, "yes_which_outlet", "yes_one_outlet")
                  ELSE Handled(m1, [kind |-> "no_outlets_in", location |-> location])
         ELSE IF f.unknown.found
         THEN Handled(m, [kind |-> "no_outlets_in_unknown", unknown |-> f.unknown.unknown])
         ELSE Handled(set_state(m, OUTLET_SELECTION), [kind |-> "which_area"])
    ELSE Handled(m, [kind |-> "hello"])

\* _handle_initial_state from `if "outlet_inquiry" in entities["intents"]` on
InitialDispatch(m, f) ==
    LET locations == f.entities.locations IN
    IF InList("outlet_inquiry", f.entities.intents)
    THEN IF InList("petaling_jaya", locations)
         THEN AnswerRegion(update_context(m, "inquiry_location", "petaling_jaya"),
                           "petaling_jaya", "yes_which_outlet", "yes_one_outlet")
         ELSE IF Len(locations) > 0
         THEN LET location == locations[1]
                  m1 == update_context(m, "inquiry_location", location)
              IN  IF location \in DOMAIN m1.outlets_db
                  THEN AnswerRegion(m1, location, "yes_which_outlet", "yes_one_outlet")
                  ELSE Handled(m1, [kind |-> "no_outlets_in", location |-> location])
         ELSE IF f.unknown.found
         THEN Handled(m, [kind |-> "no_outlets_in_unknown", unknown |-> f.unknown.unknown])
         ELSE Handled(set_state(m, LOCATION_INQUIRY), [kind |-> "which_area"])
    ELSE Handled(m, [kind |-> "hello"])

\* the two direct outlet branches of _handle_initial_state
DirectOutlet(m, f, region, text, kind) ==
    LET m1 == update_context(m, "inquiry_location", region)
        outlets == m1.outlets_db[region]
        i == FirstNamed(outlets, text)
    IN  IF i # 0
        THEN LET m2 == set_state(update_context(m1, "selected_outlet", outlets[i]),
                                 INFORMATION_REQUEST)
             IN  IF AsksInfo(f)
                 THEN _handle_information_request(m2, f)
                 ELSE Handled(m2, [kind |-> kind, outlet |-> outlets[i].name])
        ELSE InitialDispatch(m1, f)

\* a _handle_initial_state that dispatches an outlet inquiry on its region before it
\* looks for an outlet named directly
_handle_initial_state_region_first(m, f) ==
    IF InList("outlet_inquiry", f.entities.intents) /\ Len(f.entities.locations) > 0
    THEN InitialDispatch(m, f)
    ELSE IF InList("ss2", f.entities.locations) \/ f.says_ss2
    THEN DirectOutlet(m, f, "petaling_jaya", <<"S","S"," ","2">>, "great_asking_about")
    ELSE IF InList("klcc", f.entities.locations) \/ f.says_klcc
    THEN DirectOutlet(m, f, "kuala_lumpur", <<"K","L","C","C">>, "perfect_asking_about")
    ELSE InitialDispatch(m, f)

\* SequentialConversationBot._handle_initial_state
_handle_initial_state(m, f) ==
    IF InList("ss2", f.entities.locations) \/ f.says_ss2
    THEN DirectOutlet(m, f, "petaling_jaya", <<"S","S"," ","2">>, "great_asking_about")
    ELSE IF InList("klcc", f.entities.locations) \/ f.says_klcc
    THEN DirectOutlet(m, f, "kuala_lumpur", <<"K","L","C","C">>, "perfect_asking_about")
    ELSE InitialDispatch(m, f)

_handle_location_inquiry(m, f) ==
    LET locations == f.entities.locations IN
    IF Len(locations) > 0
    THEN LET location == locations[1]
             m1 == update_context(m, "inquiry_location", location)
         IN  IF location \in DOMAIN m1.outlets_db
             THEN AnswerRegion(m1, location, "great_which_outlet", "perfect_one_outlet")
             ELSE Handled(m1, [kind |-> "no_outlets_in_we_have", location |-> location])
    ELSE Handled(m, [kind |-> "which_location"])

\* a loop that falls back on the region's first outlet when the utterance names none
SelectOutletOrFirst(outlets, f) ==
    IF \E i \in 1..Len(outlets) : outlets[i].name \in f.matching
    THEN SetMin({i \in 1..Len(outlets) : outlets[i].name \in f.matching})
    ELSE 1

\* the loop of _handle_outlet_selection: the index of the selected outlet, 0 for None
SelectOutlet(outlets, f) ==
    IF \E i \in 1..Len(outlets) : outlets[i].name \in f.matching
    THEN SetMin({i \in 1..Len(outlets) : outlets[i].name \in f.matching})
    ELSE 0

\* a _handle_outlet_selection that never answers the question asked along with the outlet
_handle_outlet_selection_name_only(m, f) ==
    LET known == /\ has_context(m, "inquiry_location")
                 /\ get_context(m, "inquiry_location") \in DOMAIN m.outlets_db
    IN  IF known
        THEN LET inquiry_location == get_context(m, "inquiry_location")
                 outlets == m.outlets_db[inquiry_location]
                 i == SelectOutlet(outlets, f)
             IN  IF i # 0
                 THEN Handled(set_state(update_context(m, "selected_outlet", outlets[i]),
                                        INFORMATION_REQUEST),
                              [kind |-> "perfect_asking_about", outlet |-> outlets[i].name])
                 ELSE Handled(m, [kind |-> "not_that_outlet",
                                  location |-> inquiry_location,
                                  outlets |-> OutletNames(outlets)])
        ELSE Handled(m, [kind |-> "not_sure_which_outlet"])

\* a _handle_outlet_selection that looks the utterance up among the outlets of every region
_handle_outlet_selection_any_region(m, f) ==
    LET known == /\ has_context(m, "inquiry_location")
                 /\ get_context(m, "inquiry_location") \in DOMAIN m.outlets_db
    IN  IF known
        THEN LET inquiry_location == get_context(m, "inquiry_location")
                 outlets == m.outlets_db["petaling_jaya"] \o m.outlets_db["kuala_lumpur"]
                 i == SelectOutlet(outlets, f)
             IN  IF i # 0
                 THEN LET m1 == set_state(update_context(m, "selected_outlet", outlets[i]),
                                          INFORMATION_REQUEST)
                      IN  IF AsksInfo(f)
                          THEN _handle_information_request(m1, f)
                          ELSE Handled(m1, [kind |-> "perfect_asking_about",
                                            outlet |-> outlets[i].name])
                 ELSE Handled(m, [kind |-> "not_that_outlet",
                                  location |-> inquiry_location,
                                  outlets |-> OutletNames(m.outlets_db[inquiry_location])])
        ELSE Handled(m, [kind |-> "not_sure_which_outlet"])

\* SequentialConversationBot._handle_outlet_selection
_handle_outlet_selection(m, f) ==
    LET known == /\ has_context(m, "inquiry_location")
                 /\ get_context(m, "inquiry_location") \in DOMAIN m.outlets_db
    IN  IF known
        THEN LET inquiry_location == get_context(m, "inquiry_location")
                 outlets == m.outlets_db[inquiry_location]
                 i == SelectOutlet(outlets, f)
             IN  IF i # 0
                 THEN LET m1 == set_state(update_context(m, "selected_outlet", outlets[i]),
                                          INFORMATION_REQUEST)
                      IN  IF AsksInfo(f)
                          THEN _handle_information_request(m1, f)
                          ELSE Handled(m1, [kind |-> "perfect_asking_about",
                                            outlet |-> outlets[i].name])
                 ELSE Handled(m, [kind |-> "not_that_outlet",
                                  location |-> inquiry_location,
                                  outlets |-> OutletNames(outlets)])
        ELSE Handled(m, [kind |-> "not_sure_which_outlet"])

\* a location switch that applies only while an outlet is being selected or asked about
SwitchRegionMidSelection(m, f) ==
    LET locs == SelectSeq(f.entities.locations,
                          LAMBDA loc : loc \in {"petaling_jaya", "kuala_lumpur"})
    IN  IF /\ f.switch_marker /\ Len(locs) > 0
           /\ m.current_state \in {OUTLET_SELECTION, INFORMATION_REQUEST}
        THEN locs[Len(locs)]
        ELSE ""

\* the location switch at the top of _generate_response: the region switched to,
\* or "" when the switch does not apply
SwitchRegion(m, f) ==
    LET locs == SelectSeq(f.entities.locations,
                          LAMBDA loc : loc \in {"petaling_jaya", "kuala_lumpur"})
    IN  IF f.switch_marker /\ Len(locs) > 0 /\ m.current_state # INITIAL
        THEN locs[Len(locs)]
        ELSE ""

---------------------------------------------------------------------------
(* The catalogue lookups of the handlers that can raise.  None is written   *)
(* [none |-> TRUE]; a lookup that raises ends _generate_response with the  *)
(* memory as the handler left it up to that line.                          *)

NoneCatalog == [none |-> TRUE]

\* self.memory.outlets_db[key]: the exception it raises, "" when it returns
LookupRaises(db, key) ==
    IF DOMAIN db = DOMAIN NoneCatalog THEN "TypeError"
    ELSE IF key \notin DOMAIN db THEN "KeyError"
    ELSE ""

\* location in self.memory.outlets_db: the exception it raises, "" when it returns
ContainsRaises(db) == IF DOMAIN db = DOMAIN NoneCatalog THEN "TypeError" ELSE ""

Failure(m, exception) == [m |-> m, exception |-> exception]

\* _handle_initial_state from `if "outlet_inquiry" in entities["intents"]` on
InitialDispatchFailure(m, f) ==
    LET locations == f.entities.locations IN
    IF InList("outlet_inquiry", f.entities.intents)
    THEN IF InList("petaling_jaya", locations)
         THEN Failure(update_context(m, "inquiry_location", "petaling_jaya"),
                      LookupRaises(m.outlets_db, "petaling_jaya"))
         ELSE IF Len(locations) > 0
         THEN Failure(update_context(m, "inquiry_location", locations[1]),
                      ContainsRaises(m.outlets_db))
         ELSE Failure(m, "")
    ELSE Failure(m, "")

\* the two direct outlet branches of _handle_initial_state
DirectOutletFailure(m, f, region, text) ==
    LET m1 == update_context(m, "inquiry_location", region) IN
    IF LookupRaises(m.outlets_db, region) # ""
    THEN Failure(m1, LookupRaises(m.outlets_db, region))
    ELSE IF FirstNamed(m.outlets_db[region], text) # 0 THEN Failure(m, "")
    ELSE InitialDispatchFailure(m1, f)

\* _generate_response and the handler it calls: the exception a catalogue lookup raises
\* and the memory at that point; the exception is "" when none is raised
catalog_failure(m, f) ==
    LET region == SwitchRegion(m, f) IN
    IF region # ""
    THEN Failure(update_context(set_state(m, OUTLET_SELECTION), "inquiry_location", region),
                 LookupRaises(m.outlets_db, region))
    ELSE CASE m.current_state = INITIAL ->
                IF InList("ss2", f.entities.locations) \/ f.says_ss2
                THEN DirectOutletFailure(m, f, "petaling_jaya", <<"S","S"," ","2">>)
                ELSE IF InList("klcc", f.entities.locations) \/ f.says_klcc
                THEN DirectOutletFailure(m, f, "kuala_lumpur", <<"K","L","C","C">>)
                ELSE InitialDispatchFailure(m, f)
           [] m.current_state = LOCATION_INQUIRY ->
                IF Len(f.entities.locations) > 0
                THEN Failure(update_context(m, "inquiry_location", f.entities.locations[1]),
                             ContainsRaises(m.outlets_db))
                ELSE Failure(m, "")
           [] m.current_state = OUTLET_SELECTION ->
                IF has_context(m, "inquiry_location")
                THEN Failure(m, ContainsRaises(m.outlets_db))
                ELSE Failure(m, "")
           [] OTHER -> Failure(m, "")

---------------------------------------------------------------------------
\* a _generate_response for which a conversation in any other state starts over
_generate_response_starting_over(m, f) ==
    LET region == SwitchRegion(m, f) IN
    IF region # ""
    THEN Handled(update_context(set_state(m, OUTLET_SELECTION), "inquiry_location", region),
                 [kind |-> "switching_to", location |-> region,
                  outlets |-> OutletNames(m.outlets_db[region])])
    ELSE CASE m.current_state = LOCATION_INQUIRY -> _handle_location_inquiry(m, f)
           [] m.current_state = OUTLET_SELECTION -> _handle_outlet_selection(m, f)
           [] m.current_state = INFORMATION_REQUEST -> _handle_information_request(m, f)
           [] OTHER -> _handle_initial_state(m, f)

\* a _generate_response whose location switch leaves the state as it is
_generate_response_switch_keeps_state(m, f) ==
    LET region == SwitchRegion(m, f) IN
    IF region # ""
    THEN Handled(update_context(m, "inquiry_location", region),
                 [kind |-> "switching_to", location |-> region,
                  outlets |-> OutletNames(m.outlets_db[region])])
    ELSE CASE m.current_state = INITIAL -> _handle_initial_state(m, f)
           [] m.current_state = LOCATION_INQUIRY -> _handle_location_inquiry(m, f)
           [] m.current_state = OUTLET_SELECTION -> _handle_outlet_selection(m, f)
           [] m.current_state = INFORMATION_REQUEST -> _handle_information_request(m, f)
           [] OTHER -> Handled(m, [kind |-> "how_can_i_help"])

\* a _generate_response that goes on selecting outlets once the conversation is completed
_generate_response_completed_selects(m, f) ==
    LET region == SwitchRegion(m, f) IN
    IF region # ""
    THEN Handled(update_context(set_state(m, OUTLET_SELECTION), "inquiry_location", region),
                 [kind |-> "switching_to", location |-> region,
                  outlets |-> OutletNames(m.outlets_db[region])])
    ELSE CASE m.current_state = INITIAL -> _handle_initial_state(m, f)
           [] m.current_state = LOCATION_INQUIRY -> _handle_location_inquiry(m, f)
           [] m.current_state = OUTLET_SELECTION -> _handle_outlet_selection(m, f)
           [] m.current_state = INFORMATION_REQUEST -> _handle_information_request(m, f)
           [] OTHER -> _handle_outlet_selection(m, f)

\* SequentialConversationBot._generate_response
_generate_response(m, f) ==
    LET region == SwitchRegion(m, f) IN
    IF region # ""
    THEN Handled(update_context(set_state(m, OUTLET_SELECTION), "inquiry_location", region),
                 [kind |-> "switching_to", location |-> region,
                  outlets |-> OutletNames(m.outlets_db[region])])
    ELSE CASE m.current_state = INITIAL -> _handle_initial_state(m, f)
           [] m.current_state = LOCATION_INQUIRY -> _handle_location_inquiry(m, f)
           [] m.current_state = OUTLET_SELECTION -> _handle_outlet_selection(m, f)
           [] m.current_state = INFORMATION_REQUEST -> _handle_information_request(m, f)
           [] OTHER -> Handled(m, [kind |-> "how_can_i_help"])

---------------------------------------------------------------------------
VARIABLES
    memory,            \* Question_1 SequentialConversationBot.memory
    last_response,          \* what the last process_input of the sequential bot returned
    agentic,           \* Question_2 AgenticConversationBot.memory
    agentic_response,  \* what the last process_input of the planner-driven bot returned
    calculator,        \* Question_3 CalculatorBot: its memory and calculator_available
    calculator_response, \* what the last process_input of the calculator bot returned
    uuids_drawn,       \* how many uuid4 values have been drawn; each draw is a new value
    decide_args,       \* the arguments of a decide_action call
    decide_result,     \* what the call returned, "pending" before it returns
    tool_pc,           \* where the calculator tool call stands
    tool_args,         \* entry point, expr and max_retries of the call
    tool_attempt,           \* the loop variable of call_calculator_with_retry
    tool_result,            \* what the last call_calculator returned
    tool_return,       \* how the call ended: pending, returned (a value) or raised
    log,               \* the calls, probes, requests, results and sleeps of the call, in order
    sessions,          \* several SequentialConversationBot instances, one thread each
    outlets_db,        \* data.OUTLETS_DB, the one dict every ConversationMemory refers to
    fn_args,           \* the arguments of the calls of one function, called on its own
    fn_returns         \* what these calls returned, in order

seq_vars == <<memory, last_response>>

agentic_vars == <<agentic, agentic_response>>

decide_vars == <<decide_args, decide_result>>

calculator_vars == <<calculator, calculator_response>>

sessions_vars == <<sessions, outlets_db>>

fn_vars == <<fn_args, fn_returns>>

tool_vars == <<tool_pc, tool_args, tool_attempt, tool_result, tool_return, log>>

vars == <<memory, last_response, agentic, agentic_response, calculator,
          calculator_response, uuids_drawn, decide_args,
          decide_result, tool_pc, tool_args, tool_attempt, tool_result, tool_return, log,
          sessions, outlets_db, fn_args, fn_returns>>

not_seq ==
    <<agentic_vars, calculator_vars, decide_vars, tool_vars, sessions_vars, fn_vars>>

not_agentic ==
    <<seq_vars, calculator_vars, decide_vars, tool_vars, sessions_vars, fn_vars>>

not_decide ==
    <<seq_vars, agentic_vars, calculator_vars, uuids_drawn, tool_vars, sessions_vars, fn_vars>>

not_tool ==
    <<seq_vars, agentic_vars, calculator_vars, uuids_drawn, decide_vars, sessions_vars, fn_vars>>

not_sessions ==
    <<seq_vars, agentic_vars, calculator_vars, decide_vars, tool_vars, fn_vars>>

not_fn ==
    <<seq_vars, agentic_vars, calculator_vars, uuids_drawn, decide_vars, tool_vars,
      sessions_vars>>

not_calculator ==
    <<seq_vars, agentic_vars, decide_vars, tool_vars, sessions_vars, fn_vars>>

\* no call has returned yet
NoResponse == [kind |-> "none"]

\* the parts of the system a specification leaves idle
IdleSequential == memory = << >> /\ last_response = NoResponse

IdleAgentic == agentic = << >> /\ agentic_response = NoResponse

IdleCalculator == calculator = << >> /\ calculator_response = NoResponse

IdleSessions == sessions = << >> /\ outlets_db = << >>

IdleFn == fn_args = << >> /\ fn_returns = << >>

IdleDecide == decide_args = << >> /\ decide_result = "pending"

IdleTool ==
    /\ tool_pc = "idle"
    /\ tool_args = << >>
    /\ tool_attempt = 0
    /\ tool_result = NoResponse
    /\ tool_return = [kind |-> "pending"]
    /\ log = << >>

---------------------------------------------------------------------------
(* Question_1: the operations of SequentialConversationBot.                *)

\* turns per session explored
MaxTurns == 3

\* sessions (uuid draws) explored
MaxSessions == 3

\* the utterances fed to the sequential bot
SeqUtterances ==
    { << >>,
      <<" "," "," ">>,
      <<"H","e","l","l","o">>,
      <<"I","s"," ","t","h","e","r","e"," ","a","n"," ","o","u","t","l","e","t"," ","i","n"," ",
        "P","e","t","a","l","i","n","g"," ","J","a","y","a","?">>,
      <<"S","S"," ","2",","," ","w","h","a","t","'","s"," ","t","h","e"," ","o","p","e","n","i",
        "n","g"," ","t","i","m","e","?">>,
      <<"T","h","a","n","k","s","!">>,
      <<"A","c","t","u","a","l","l","y",","," ","w","h","a","t"," ","a","b","o","u","t"," ","K",
        "u","a","l","a"," ","L","u","m","p","u","r","?">>,
      <<"D","o"," ","y","o","u"," ","h","a","v","e"," ","a","n","y"," ","o","u","t","l","e","t",
        "s","?">>,
      <<"I","s"," ","t","h","e","r","e"," ","a","n"," ","o","u","t","l","e","t"," ","i","n"," ",
        "P","J","?">>,
      <<"I","s"," ","t","h","e","r","e"," ","a","n"," ","o","u","t","l","e","t"," ","i","n"," ",
        "P","e","n","a","n","g","?">>,
      <<"K","L","C","C">>,
      <<"s","s"," ","2"," ","o","r"," ","s","s"," ","2","1">>,
      <<"P","J"," ","C","e","n","t","r","a","l"," ","p","h","o","n","e"," ","n","u","m","b","e",
        "r">>,
      <<"W","h","a","t"," ","a","b","o","u","t"," ","P","J","?">>,
      <<"S","S"," ","2"," ","o","p","e","n","i","n","g"," ","t","i","m","e",","," ","t","h","a",
        "n","k","s">> }

\* the numbers put after "ss" in the answers to "which outlet?"
SsNumbers == {<<"2">>, <<"3">>, <<"2","1">>, <<"2","5">>}

\* what an answer can mention: "ss" and a number, written with or without a space, or
\* the other outlet of Petaling Jaya (number empty)
Mentions ==
    {[text |-> <<"s","s">> \o gap \o n, number |-> n] : gap \in {<< >>, <<" ">>}, n \in SsNumbers}
        \cup {[text |-> <<"p","j"," ","c","e","n","t","r","a","l">>, number |-> << >>]}

\* an answer mentions one of them, or two joined by "or"
SelectionPhrases == {<<a>> : a \in Mentions} \cup {<<a, b>> : a, b \in Mentions}

Render(phrase) ==
    IF Len(phrase) = 1 THEN phrase[1].text
    ELSE phrase[1].text \o <<" ","o","r"," ">> \o phrase[2].text

\* the answers fed to the bot while it asks which outlet is meant
SelectionUtterances == {Render(phrase) : phrase \in SelectionPhrases}

\* the region inquiries that open such a conversation
SelectionEntries ==
    {<<"I","s"," ","t","h","e","r","e"," ","a","n"," ","o","u","t","l","e","t"," ","i","n"," ",
       "P","e","t","a","l","i","n","g"," ","J","a","y","a","?">>, <<"I","s"," ","t","h","e","r","e"," ","a","n"," ",
                                                 "o","u","t","l","e","t"," ","i","n"," ","P","J",
                                                 "?">>}

\* the utterances that name an outlet: alone, with a question, with an outlet inquiry
\* and a region, both outlets at once, and within a topic switch
DirectUtterances ==
    { <<"S","S"," ","2"," ","o","p","e","n","i","n","g"," ","h","o","u","r","s","?">>,
      <<"I","s"," ","t","h","e","r","e"," ","a","n"," ","o","u","t","l","e","t"," ","i","n"," ",
        "P","e","t","a","l","i","n","g"," ","J","a","y","a",","," ","S","S"," ","2","?">>,
      <<"I","s"," ","t","h","e","r","e"," ","a","n"," ","S","S"," ","2"," ","o","u","t","l","e",
        "t"," ","i","n"," ","K","u","a","l","a"," ","L","u","m","p","u","r","?">>,
      <<"I","s"," ","t","h","e","r","e"," ","a","n"," ","o","u","t","l","e","t"," ","i","n"," ",
        "K","u","a","l","a"," ","L","u","m","p","u","r",","," ","K","L","C","C","?">>,
      <<"W","h","e","r","e"," ","i","s"," ","t","h","e"," ","k","l","c","c"," ","b","r","a","n",
        "c","h","?">>,
      <<"A","n","y"," ","o","u","t","l","e","t","s"," ","a","t"," ","K","L","C","C"," ","o","r",
        " ","S","S"," ","2","?">>,
      <<"K","L","C","C">>,
      <<"A","c","t","u","a","l","l","y",","," ","w","h","a","t"," ","a","b","o","u","t"," ","K",
        "L","C","C"," ","i","n"," ","K","u","a","l","a"," ","L","u","m","p","u","r","?">> }

\* what the caller says besides: small talk, region inquiries and topic switches
SmallTalk ==
    { << >>,
      <<"H","e","l","l","o">>,
      <<"T","h","a","n","k","s","!">>,
      <<"D","o"," ","y","o","u"," ","h","a","v","e"," ","a","n","y"," ","o","u","t","l","e","t",
        "s","?">>,
      <<"I","s"," ","t","h","e","r","e"," ","a","n"," ","o","u","t","l","e","t"," ","i","n"," ",
        "P","e","t","a","l","i","n","g"," ","J","a","y","a","?">>,
      <<"W","h","a","t"," ","a","b","o","u","t"," ","P","J","?">>,
      <<"A","c","t","u","a","l","l","y",","," ","w","h","a","t"," ","a","b","o","u","t"," ","K",
        "u","a","l","a"," ","L","u","m","p","u","r","?">> }

\* UtteranceFacts of each utterance, computed once
SeqFacts ==
    {<<u, UtteranceFacts(u)>> : u \in SeqUtterances \cup SelectionUtterances \cup DirectUtterances}

FactsOf(user_input) == (CHOOSE p \in SeqFacts : p[1] = user_input)[2]

\* SequentialConversationBot.__init__
InitSequential ==
    /\ memory = NewConversationMemory(1)
    /\ last_response = NoResponse
    /\ uuids_drawn = 1
    /\ IdleAgentic /\ IdleCalculator /\ IdleDecide /\ IdleTool /\ IdleSessions
    /\ IdleFn

\* state=self.current_state.value in add_turn: a current_state that is no member of
\* ConversationState has no attribute value, and the AttributeError leaves process_input
add_turn_raises(m) == m.current_state \notin ConversationState

\* a process_input that takes a blank utterance for a request to start over
process_input_blank_restarts(m, user_input) ==
    IF Len(user_input) = 0 \/ IsBlank(user_input)
    THEN Handled([m EXCEPT !.current_state = INITIAL, !.context_variables = << >>],
                 [kind |-> "didnt_catch_that"])
    ELSE Bind(FactsOf(user_input), LAMBDA f :
             Bind(_generate_response(m, f), LAMBDA r :
                 IF add_turn_raises(r.m)
                 THEN Handled(r.m, [kind |-> "raised", exception |-> "AttributeError"])
                 ELSE Handled(add_turn(r.m, user_input, r.response, f.entities),
                              r.response)))

\* SequentialConversationBot.process_input: the memory after the call and what it returns;
\* an exception of _generate_response or add_turn leaves process_input uncaught
process_input(m, user_input) ==
    IF Len(user_input) = 0 \/ IsBlank(user_input)
    THEN Handled(m, [kind |-> "didnt_catch_that"])
    ELSE Bind(FactsOf(user_input), LAMBDA f :
         Bind(catalog_failure(m, f), LAMBDA x :
             IF x.exception # ""
             THEN Handled(x.m, [kind |-> "raised", exception |-> x.exception])
             ELSE Bind(_generate_response(m, f), LAMBDA r :
                 IF add_turn_raises(r.m)
                 THEN Handled(r.m, [kind |-> "raised", exception |-> "AttributeError"])
                 ELSE Handled(add_turn(r.m, user_input, r.response, f.entities),
                              r.response))))

ProcessInput(user_input) ==
    /\ Len(memory.turns) < MaxTurns
    /\ \E r \in {process_input(memory, user_input)} :
        /\ memory' = r.m
        /\ last_response' = r.response
    /\ UNCHANGED <<uuids_drawn, not_seq>>

\* a reset that keeps the session identifier of the session it ends
reset_keeping_session_id(uuid) ==
    [NewConversationMemory(uuid) EXCEPT !.session_id = uuid - 1]

\* SequentialConversationBot.reset_conversation
reset_conversation(uuid) == NewConversationMemory(uuid)

ResetConversation ==
    /\ uuids_drawn < MaxSessions
    /\ memory' = reset_conversation(uuids_drawn + 1)
    /\ uuids_drawn' = uuids_drawn + 1
    /\ UNCHANGED <<last_response, not_seq>>

NextSequential ==
    \/ \E user_input \in SeqUtterances : ProcessInput(user_input)
    \/ ResetConversation

SpecSequential == InitSequential /\ [][NextSequential]_vars

\* bot.memory.current_state = "invalid_state": a caller overwrites the state with a value
\* outside ConversationState, as test_conversation_state_corruption_recovery does
CorruptState ==
    /\ memory.current_state \in ConversationState
    /\ memory' = [memory EXCEPT !.current_state = "invalid_state"]
    /\ UNCHANGED <<last_response, uuids_drawn, not_seq>>

NextCorrupted ==
    \/ NextSequential
    \/ CorruptState

\* the sequential bot with a caller that may corrupt its state
SpecCorrupted == InitSequential /\ [][NextCorrupted]_vars

\* the catalogues a caller puts in place of OUTLETS_DB: empty, None, malformed, and one
\* that lacks Petaling Jaya
BrokenCatalogs ==
    { << >>, NoneCatalog, [invalid |-> "structure"],
      [loc \in {"kuala_lumpur"} |-> OUTLETS_DB[loc]] }

\* bot.memory.outlets_db = db, as test_outlets_db_corruption_handling does
ReplaceCatalog(db) ==
    /\ memory.outlets_db = OUTLETS_DB
    /\ memory' = [memory EXCEPT !.outlets_db = db]
    /\ UNCHANGED <<last_response, uuids_drawn, not_seq>>

NextCatalog ==
    \/ NextSequential
    \/ \E db \in BrokenCatalogs : ReplaceCatalog(db)

\* the sequential bot with a caller that may replace its catalogue
SpecCatalog == InitSequential /\ [][NextCatalog]_vars


---------------------------------------------------------------------------
(* The conversations about outlets named directly: utterances that name an *)
(* outlet, with or without a region, among inquiries and small talk.       *)

\* every utterance of these conversations
OutletUtterances == DirectUtterances \cup SmallTalk

NextDirect ==
    \/ \E user_input \in OutletUtterances : ProcessInput(user_input)
    \/ ResetConversation

SpecDirect == InitSequential /\ [][NextDirect]_vars

---------------------------------------------------------------------------
(* The outlet selection on its own: a region inquiry, then answers to      *)
(* "which outlet?" that mention numbered "ss" names.                       *)

MaxSelectionAttempts == 1

\* process_input with a region inquiry, on a new bot
EnterSelection(entry) ==
    /\ Len(memory.turns) = 0
    /\ ProcessInput(entry)

\* process_input with an answer while the bot is in OUTLET_SELECTION
SelectionInput(user_input) ==
    /\ memory.current_state = OUTLET_SELECTION
    /\ Len(memory.turns) <= MaxSelectionAttempts
    /\ ProcessInput(user_input)

NextSelection ==
    \/ \E entry \in SelectionEntries : EnterSelection(entry)
    \/ \E user_input \in SelectionUtterances : SelectionInput(user_input)

SpecSelection == InitSequential /\ [][NextSelection]_vars
---------------------------------------------------------------------------
(* Question_2: planner.py.                                                 *)

ASK_FOLLOWUP == "ASK_FOLLOWUP"

CALL_CALCULATOR == "CALL_CALCULATOR"

CALL_RAG == "CALL_RAG"

CALL_TEXT2SQL == "CALL_TEXT2SQL"

FINISH == "FINISH"

\* class Action
Action == {ASK_FOLLOWUP, CALL_CALCULATOR, CALL_RAG, CALL_TEXT2SQL, FINISH}

\* a planner that looks at the intents before the missing slots
decide_action_intents_first(state, intents, missing_slots) ==
    IF InList("calc_intent", intents) THEN CALL_CALCULATOR
    ELSE IF InList("product_query", intents) THEN CALL_RAG
    ELSE IF InList("outlet_query", intents) THEN CALL_TEXT2SQL
    ELSE IF Len(missing_slots) > 0 THEN ASK_FOLLOWUP
    ELSE FINISH

\* a planner that prefers a product intent to a calculation intent
decide_action_product_first(state, intents, missing_slots) ==
    IF Len(missing_slots) > 0 THEN ASK_FOLLOWUP
    ELSE IF InList("product_query", intents) THEN CALL_RAG
    ELSE IF InList("calc_intent", intents) THEN CALL_CALCULATOR
    ELSE IF InList("outlet_query", intents) THEN CALL_TEXT2SQL
    ELSE FINISH

\* a planner with no fallback: None when nothing matches
decide_action_partial(state, intents, missing_slots) ==
    IF Len(missing_slots) > 0 THEN ASK_FOLLOWUP
    ELSE IF InList("calc_intent", intents) THEN CALL_CALCULATOR
    ELSE IF InList("product_query", intents) THEN CALL_RAG
    ELSE IF InList("outlet_query", intents) THEN CALL_TEXT2SQL
    ELSE "None"

\* decide_action: intents and missing_slots are lists; state is not read
decide_action(state, intents, missing_slots) ==
    IF Len(missing_slots) > 0 THEN ASK_FOLLOWUP
    ELSE IF InList("calc_intent", intents) THEN CALL_CALCULATOR
    ELSE IF InList("product_query", intents) THEN CALL_RAG
    ELSE IF InList("outlet_query", intents) THEN CALL_TEXT2SQL
    ELSE FINISH

\* the keys of IntentExtractor.patterns, in dict order
PlannerIntents == <<"calc_intent", "product_query", "outlet_query">>

\* \d+\s*[\+\-\*\/]\s*\d+
HasBinaryExpression(t) ==
    RePlus(t, ReStar(t, ReOne(t, ReStar(t, RePlus(t, Positions(t), Digits), Whitespace),
                              Operators), Whitespace), Digits) # {}

\* any(pattern.search(text) for pattern in compiled_patterns[intent]); t is the text
\* lowered (re.IGNORECASE)
PlannerIntentSearch(intent, t) ==
    LET P == Positions(t) IN
    CASE intent = "calc_intent" ->
            \/ HasBinaryExpression(t)
            \/ ContainsAny(t, {<<"c","a","l","c","u","l","a","t","e">>, <<"c","o","m","p","u","t","e">>, <<"m","a","t","h">>, <<"a","d","d">>, <<"s","u","b","t",
                                                                                "r","a","c","t">>,
                               <<"m","u","l","t","i","p","l","y">>, <<"d","i","v","i","d","e">>})
            \* what\s+is\s+\d+.*\d+
            \/ RePlus(t, ReDotStar(t, RePlus(t, RePlus(t, ReLit(t, RePlus(t,
                   ReLit(t, P, <<"w","h","a","t">>), Whitespace), <<"i","s">>), Whitespace), Digits)),
                   Digits) # {}
            \* \d+\s*[\+\-\*\/]
            \/ ReOne(t, ReStar(t, RePlus(t, P, Digits), Whitespace), Operators) # {}
      [] intent = "product_query" ->
            \/ ContainsAny(t, {<<"m","u","g">>, <<"c","u","p">>, <<"b","o","t","t","l","e">>, <<"t","u","m","b","l","e","r">>, <<"g","l","a","s","s">>,
                               <<"f","l","a","s","k">>, <<"d","r","i","n","k","w","a","r","e">>})
            \* what.*products|show.*products|available.*items
            \/ ReLit(t, ReDotStar(t, ReLit(t, P, <<"w","h","a","t">>)), <<"p","r","o","d","u","c","t","s">>) # {}
            \/ ReLit(t, ReDotStar(t, ReLit(t, P, <<"s","h","o","w">>)), <<"p","r","o","d","u","c","t","s">>) # {}
            \/ ReLit(t, ReDotStar(t, ReLit(t, P, <<"a","v","a","i","l","a","b","l","e">>)), <<"i","t","e","m","s">>) # {}
            \* looking\s+for|need\s+a|want\s+to\s+buy
            \/ ReLit(t, RePlus(t, ReLit(t, P, <<"l","o","o","k","i","n","g">>), Whitespace), <<"f","o","r">>) # {}
            \/ ReLit(t, RePlus(t, ReLit(t, P, <<"n","e","e","d">>), Whitespace), <<"a">>) # {}
            \/ ReLit(t, RePlus(t, ReLit(t, RePlus(t, ReLit(t, P, <<"w","a","n","t">>), Whitespace),
                                        <<"t","o">>), Whitespace), <<"b","u","y">>) # {}
      [] intent = "outlet_query" ->
            \/ ContainsAny(t, {<<"o","u","t","l","e","t">>, <<"s","t","o","r","e">>, <<"l","o","c","a","t","i","o","n">>, <<"b","r","a","n","c","h">>})
            \* where.*located|address|find.*store
            \/ ReLit(t, ReDotStar(t, ReLit(t, P, <<"w","h","e","r","e">>)), <<"l","o","c","a","t","e","d">>) # {}
            \/ Contains(t, <<"a","d","d","r","e","s","s">>)
            \/ ReLit(t, ReDotStar(t, ReLit(t, P, <<"f","i","n","d">>)), <<"s","t","o","r","e">>) # {}
            \* hours|time.*open|phone|contact
            \/ ContainsAny(t, {<<"h","o","u","r","s">>, <<"p","h","o","n","e">>, <<"c","o","n","t","a","c","t">>})
            \/ ReLit(t, ReDotStar(t, ReLit(t, P, <<"t","i","m","e">>)), <<"o","p","e","n">>) # {}
            \* petaling\s+jaya|kuala\s+lumpur|pj|kl|ss\s*2|klcc|pj\s+central
            \/ ReLit(t, RePlus(t, ReLit(t, P, <<"p","e","t","a","l","i","n","g">>), Whitespace), <<"j","a","y","a">>) # {}
            \/ ReLit(t, RePlus(t, ReLit(t, P, <<"k","u","a","l","a">>), Whitespace), <<"l","u","m","p","u","r">>) # {}
            \/ ContainsAny(t, {<<"p","j">>, <<"k","l">>, <<"k","l","c","c">>})
            \/ ReLit(t, ReStar(t, ReLit(t, P, <<"s","s">>), Whitespace), <<"2">>) # {}
            \/ ReLit(t, RePlus(t, ReLit(t, P, <<"p","j">>), Whitespace), <<"c","e","n","t","r","a","l">>) # {}

\* IntentExtractor.extract_intents
extract_intents(text) ==
    Bind(Lower(text), LAMBDA t :
        SelectSeq(PlannerIntents, LAMBDA intent : PlannerIntentSearch(intent, t)))

\* the three checks of extract_missing_slots, in order
MissingSlotChecks == <<"complete_expression", "specific_product", "location_or_specific_query">>

\* an extract_missing_slots that takes a slot for filled once the context holds intents
extract_missing_slots_given_context(text, context) ==
    Bind(Lower(text), LAMBDA t :
        IF "last_intents" \in DOMAIN context THEN << >>
        ELSE IF PlannerIntentSearch("calc_intent", t) /\ ~HasBinaryExpression(text)
        THEN <<"complete_expression">>
        ELSE << >>)

\* IntentExtractor.extract_missing_slots; the context argument is not read
extract_missing_slots(text, context) ==
    Bind(Lower(text), LAMBDA t :
    LET missing(slot) ==
            CASE slot = "complete_expression" ->
                    /\ PlannerIntentSearch("calc_intent", t)
                    /\ ~HasBinaryExpression(text)
              [] slot = "specific_product" ->
                    /\ PlannerIntentSearch("product_query", t)
                    /\ WordCount(text) < 3
                    /\ ~ContainsAny(t, {<<"m","u","g">>, <<"c","u","p">>, <<"b","o","t","t","l","e">>, <<"t","u","m","b","l","e",
                                                                        "r">>, <<"g","l","a",
                                                                                     "s","s">>,
                                        <<"f","l","a","s","k">>})
              [] slot = "location_or_specific_query" ->
                    /\ PlannerIntentSearch("outlet_query", t)
                    /\ ~ContainsAny(t, {<<"p","e","t","a","l","i","n","g"," ","j","a","y","a">>, <<"p","j">>, <<"k","u","a","l","a"," ","l",
                                                                     "u","m","p","u","r">>, <<"k","l">>,
                                        <<"s","s"," ","2">>, <<"k","l","c","c">>, <<"p","j"," ","c","e","n","t","r","a",
                                                              "l">>})
                    /\ ~ContainsAny(t, {<<"h","o","u","r","s">>, <<"t","i","m","e">>, <<"p","h","o","n","e">>, <<"c","o","n","t","a","c",
                                                                          "t">>,
                                        <<"a","d","d","r","e","s","s">>})
    IN  SelectSeq(MissingSlotChecks, LAMBDA slot : missing(slot)))

\* the products of rag_endpoint, in dict order
RagProducts == <<<<"m","u","g">>, <<"c","u","p">>, <<"b","o","t","t","l","e">>, <<"t","u","m","b","l","e","r">>, <<"g","l","a","s","s">>, <<"f","l","a","s","k">>>>

\* rag_endpoint: the reply names the first product found in the query
rag_endpoint(query) ==
    Bind(Lower(query), LAMBDA q :
        LET found == {i \in 1..Len(RagProducts) : Contains(q, RagProducts[i])}
        IN  IF found # {}
            THEN [kind |-> "rag_found", product |-> RagProducts[SetMin(found)]]
            ELSE [kind |-> "rag_not_found"])

\* the outlets of text2sql_endpoint: name.lower(), city.lower(), city
Text2SqlOutlets ==
    << [name |-> <<"s","s"," ","2">>, city |-> <<"p","e","t","a","l","i","n","g"," ","j","a","y","a">>, city_name |-> "Petaling Jaya"],
       [name |-> <<"p","j"," ","c","e","n","t","r","a","l">>, city |-> <<"p","e","t","a","l","i","n","g"," ","j","a","y","a">>, city_name |-> "Petaling Jaya"],
       [name |-> <<"k","l","c","c">>, city |-> <<"k","u","a","l","a"," ","l","u","m","p","u","r">>, city_name |-> "Kuala Lumpur"] >>

\* text2sql_endpoint
text2sql_endpoint(query) ==
    Bind(Lower(query), LAMBDA q :
    LET named == {i \in 1..Len(Text2SqlOutlets) :
                     \/ Contains(q, Text2SqlOutlets[i].name)
                     \/ Contains(q, Text2SqlOutlets[i].city)}
        about(kind) == IF named # {}
                       THEN [kind |-> kind, outlet |-> Text2SqlOutlets[SetMin(named)].name]
                       ELSE [kind |-> "sql_specify_outlet"]
    IN  IF ContainsAny(q, {<<"h","o","u","r","s">>, <<"t","i","m","e">>, <<"o","p","e","n">>}) THEN about("sql_hours")
        ELSE IF ContainsAny(q, {<<"p","h","o","n","e">>, <<"n","u","m","b","e","r">>, <<"c","o","n","t","a","c","t">>}) THEN about("sql_phone")
        ELSE IF ContainsAny(q, {<<"p","e","t","a","l","i","n","g"," ","j","a","y","a">>, <<"p","j">>})
        THEN [kind |-> "sql_outlets_in", city |-> "Petaling Jaya"]
        ELSE IF ContainsAny(q, {<<"k","u","a","l","a"," ","l","u","m","p","u","r">>, <<"k","l">>})
        THEN [kind |-> "sql_outlets_in", city |-> "Kuala Lumpur"]
        ELSE [kind |-> "sql_all_outlets"])

\* the utterances fed to the planner-driven bot
PlanUtterances ==
    { << >>,
      <<" "," ">>,
      <<"W","h","a","t"," ","i","s"," ","5"," ","+"," ","3","?">>,
      <<"S","h","o","w"," ","m","e"," ","y","o","u","r"," ","m","u","g","s">>,
      <<"W","h","a","t"," ","a","r","e"," ","t","h","e"," ","h","o","u","r","s"," ","f","o","r",
        " ","S","S"," ","2","?">>,
      <<"C","a","l","c","u","l","a","t","e">>,
      <<"W","h","a","t"," ","p","r","o","d","u","c","t","s","?">>,
      <<"S","t","o","r","e"," ","i","n","f","o">>,
      <<"T","h","a","n","k","s",","," ","t","h","a","t","'","s"," ","a","l","l">>,
      <<" ","C","a","l","c","u","l","a","t","e"," ","1","0"," ","/"," ","0"," ","a","t"," ","t",
        "h","e"," ","K","L","C","C"," ","s","t","o","r","e"," ","m","u","g"," ","s","h","o","p",
        " ">> }

\* what the planner reads off one utterance
PlanFacts(text) ==
    [intents       |-> extract_intents(text),
     missing_slots |-> extract_missing_slots(text, << >>),
     rag           |-> rag_endpoint(text),
     text2sql      |-> text2sql_endpoint(text)]

\* PlanFacts of each utterance as process_input passes it on (stripped), computed once
PlanTable == {<<text, PlanFacts(text)>> : text \in {Strip(u) : u \in PlanUtterances}}

PlanFactsOf(text) == (CHOOSE p \in PlanTable : p[1] = text)[2]

\* execute: the reply per action.  calc_api's arithmetic is not computed: calc_ok says
\* whether calc_api returned a value or raised, and both are explored.
execute(action, question, query, calc_ok) ==
    CASE action = ASK_FOLLOWUP -> [kind |-> "question", question |-> question]
      [] action = CALL_CALCULATOR ->
            IF calc_ok THEN [kind |-> "the_result_is"] ELSE [kind |-> "couldnt_calculate"]
      [] action = CALL_RAG -> PlanFactsOf(query).rag
      [] action = CALL_TEXT2SQL -> PlanFactsOf(query).text2sql
      [] action = FINISH -> [kind |-> "glad_i_could_help"]
      [] OTHER -> [kind |-> "not_sure_how_to_handle"]

\* the question plan_and_execute picks for ASK_FOLLOWUP
FollowupQuestion(missing_slots) ==
    IF InList("complete_expression", missing_slots) THEN "complete_expression"
    ELSE IF InList("specific_product", missing_slots) THEN "specific_product"
    ELSE IF InList("location_or_specific_query", missing_slots)
    THEN "location_or_specific_query"
    ELSE "more_details"

\* plan_and_execute
plan_and_execute(user_input, context, calc_ok) ==
    Bind(PlanFactsOf(user_input), LAMBDA f :
    Bind(IF "state" \in DOMAIN context THEN context["state"] ELSE "active", LAMBDA state :
    Bind(decide_action(state, f.intents, f.missing_slots), LAMBDA action :
        [action_taken     |-> action,
         intents_detected |-> f.intents,
         missing_slots    |-> f.missing_slots,
         response         |-> execute(action, FollowupQuestion(f.missing_slots), user_input,
                                      calc_ok)])))

---------------------------------------------------------------------------
(* Question_2: agentic_bot.py.                                             *)

PROCESSING == "processing"

WAITING_FOR_CLARIFICATION == "waiting_for_clarification"

\* class ConversationState of Question_2
AgenticConversationState == {INITIAL, PROCESSING, WAITING_FOR_CLARIFICATION, COMPLETED}

\* AgenticConversationMemory.__init__; pending_clarification starts as None
NewAgenticConversationMemory(uuid) ==
    [session_id            |-> uuid,
     turns                 |-> << >>,
     current_state         |-> INITIAL,
     context               |-> << >>,
     pending_clarification |-> NoResponse]

\* AgenticConversationMemory.add_turn
agentic_add_turn(m, user_input, bot_response, action_taken, intents_detected, missing_slots) ==
    [m EXCEPT !.turns = Append(@,
        [user_input       |-> user_input,
         bot_response     |-> bot_response,
         action_taken     |-> action_taken,
         intents_detected |-> intents_detected,
         missing_slots    |-> missing_slots])]

\* the state process_input sets before planning
StateBeforePlanning(current_state) ==
    IF current_state \in {WAITING_FOR_CLARIFICATION, INITIAL} THEN PROCESSING
    ELSE current_state

\* a state update that has every action but FINISH wait for a clarification
StateAfterActionToolWaits(action_taken) ==
    IF action_taken = FINISH THEN COMPLETED ELSE WAITING_FOR_CLARIFICATION

\* a state update that starts over once the conversation is finished
StateAfterActionFinishRestarts(action_taken) ==
    IF action_taken = ASK_FOLLOWUP THEN WAITING_FOR_CLARIFICATION
    ELSE IF action_taken = FINISH THEN INITIAL
    ELSE PROCESSING

\* the state process_input sets from the action taken
StateAfterAction(action_taken) ==
    IF action_taken = ASK_FOLLOWUP THEN WAITING_FOR_CLARIFICATION
    ELSE IF action_taken = FINISH THEN COMPLETED
    ELSE PROCESSING

\* the context updates of process_input
ContextAfterTurn(context, result) ==
    LET c1 == IF Len(result.intents_detected) > 0
              THEN DictPut(context, "last_intents", result.intents_detected)
              ELSE context
    IN  IF Len(result.missing_slots) > 0
        THEN DictPut(c1, "missing_slots", result.missing_slots)
        ELSE c1

\* AgenticConversationBot.process_input: the memory after the call and what it returns
agentic_process_input(m, raw_input, calc_ok) ==
    IF Len(raw_input) = 0 \/ IsBlank(raw_input)
    THEN Handled(m, [kind |-> "didnt_catch_that"])
    ELSE Bind(Strip(raw_input), LAMBDA user_input :
         Bind(plan_and_execute(user_input,
                               DictPut(m.context, "state", StateBeforePlanning(m.current_state)),
                               calc_ok), LAMBDA result :
         Bind([m EXCEPT
                 !.current_state = StateAfterAction(result.action_taken),
                 !.pending_clarification =
                     IF result.action_taken = ASK_FOLLOWUP THEN result.response ELSE @,
                 !.context = ContextAfterTurn(@, result)], LAMBDA m1 :
             Handled(agentic_add_turn(m1, user_input, result.response, result.action_taken,
                                      result.intents_detected, result.missing_slots),
                     result.response))))

\* AgenticConversationBot.__init__
InitAgentic ==
    /\ agentic = NewAgenticConversationMemory(1)
    /\ agentic_response = NoResponse
    /\ uuids_drawn = 1
    /\ IdleSequential /\ IdleCalculator /\ IdleDecide /\ IdleTool /\ IdleSessions
    /\ IdleFn

AgenticProcessInput(user_input, calc_ok) ==
    /\ Len(agentic.turns) < MaxTurns
    /\ \E r \in {agentic_process_input(agentic, user_input, calc_ok)} :
        /\ agentic' = r.m
        /\ agentic_response' = r.response
    /\ UNCHANGED <<uuids_drawn, not_agentic>>

\* AgenticConversationBot.reset_conversation
agentic_reset_conversation(uuid) == NewAgenticConversationMemory(uuid)

AgenticResetConversation ==
    /\ uuids_drawn < MaxSessions
    /\ agentic' = agentic_reset_conversation(uuids_drawn + 1)
    /\ uuids_drawn' = uuids_drawn + 1
    /\ UNCHANGED <<agentic_response, not_agentic>>

NextAgentic ==
    \/ \E user_input \in PlanUtterances, calc_ok \in BOOLEAN :
           AgenticProcessInput(user_input, calc_ok)
    \/ AgenticResetConversation

SpecAgentic == InitAgentic /\ [][NextAgentic]_vars

---------------------------------------------------------------------------
(* decide_action as a function of its arguments.                           *)

\* the longest intents and missing_slots lists explored
MaxListLen == 2

Lists(S) == UNION {[1..n -> S] : n \in 0..MaxListLen}

\* the intents of IntentExtractor.patterns, and one the planner does not know
DecideIntents == {"calc_intent", "product_query", "outlet_query", "unknown_intent"}

\* the slots of extract_missing_slots, and one it never reports
DecideSlots == {"complete_expression", "specific_product", "location_or_specific_query",
                "missing_info"}

\* the states plan_and_execute passes
DecideStates == AgenticConversationState \cup {"active"}

InitDecide ==
    /\ decide_args \in [state : DecideStates, intents : Lists(DecideIntents),
                         missing_slots : Lists(DecideSlots)]
    /\ decide_result = "pending"
    /\ IdleSequential /\ IdleAgentic /\ IdleCalculator /\ IdleTool /\ IdleSessions
    /\ IdleFn
    /\ uuids_drawn = 0

Decide ==
    /\ decide_result = "pending"
    /\ decide_result' = decide_action(decide_args.state, decide_args.intents,
                                       decide_args.missing_slots)
    /\ UNCHANGED <<decide_args, not_decide>>

NextDecide == Decide

SpecDecide == InitDecide /\ [][NextDecide]_vars

---------------------------------------------------------------------------
(* Question_3: calculator_tool.py.  A value call_calculator returns is a    *)
(* number or a string:                                                     *)
(*     [type |-> "number", number |-> n]    [type |-> "str", text |-> text]  *)
(* The upstream service is the environment: each health probe and each     *)
(* compute request gets one of the outcomes below.                         *)

Number(n) == [type |-> "number", number |-> n]

Str(text) == [type |-> "str", text |-> text]

\* what requests.get(HEALTH_URL) can do
ProbeOutcomes == {"healthy", "status_not_healthy", "not_200", "exception"}

\* a probe that is never consulted: the service is taken to be healthy
assume_healthy(probe) == [raised |-> FALSE, value |-> TRUE]

\* a probe whose exceptions reach the caller
check_calculator_health_uncaught(probe) ==
    [raised |-> probe = "exception", value |-> probe = "healthy"]

\* check_calculator_health: every exception of the probe is caught
check_calculator_health(probe) == [raised |-> FALSE, value |-> probe = "healthy"]

Response(status_code, body) == [kind |-> "response", status_code |-> status_code, body |-> body]

Raises(kind, message) == [kind |-> kind, message |-> message]

\* what requests.post(CALC_URL) can do: a response (its status and body), or an exception
PostOutcomes ==
    { Response(200, [json |-> TRUE, has_result |-> TRUE, result |-> 0]),
      Response(200, [json |-> TRUE, has_result |-> TRUE, result |-> 8]),
      Response(200, [json |-> TRUE, has_result |-> FALSE]),
      Response(200, [json |-> FALSE, text |-> <<"<","h","t","m","l",">">>]),
      Response(400, [json |-> TRUE, has_detail |-> TRUE,
                     detail |-> <<"D","i","v","i","s","i","o","n"," ","b","y"," ","z","e","r","o",
                                  " ","i","s"," ","n","o","t"," ","a","l","l","o","w","e","d">>]),
      Response(422, [json |-> TRUE, has_detail |-> TRUE, detail |-> <<"V","a","l","u","e"," ","e",
                                                                      "r","r","o","r">>]),
      Response(404, [json |-> TRUE, has_detail |-> FALSE]),
      Response(499, [json |-> FALSE, text |-> << >>]),
      Response(429, [json |-> FALSE, text |-> <<"S","l","o","w"," ","d","o","w","n">>]),
      Response(500, [json |-> FALSE, text |-> << >>]),
      Response(302, [json |-> FALSE, text |-> << >>]),
      Raises("Timeout", << >>),
      Raises("ConnectionError", << >>),
      Raises("RequestException", <<"I","n","v","a","l","i","d"," ","U","R","L">>),
      Raises("Exception", <<"b","o","o","m">>) }

EmptyExpressionMessage == <<"P","l","e","a","s","e"," ","p","r","o","v","i","d","e"," ","a"," ",
                            "m","a","t","h","e","m","a","t","i","c","a","l"," ","e","x","p","r",
                            "e","s","s","i","o","n"," ","t","o"," ","c","a","l","c","u","l","a",
                            "t","e",".">>

NotAvailableMessage ==
    <<"C","a","l","c","u","l","a","t","o","r"," ","s","e","r","v","i","c","e"," ","i","s"," ","n",
      "o","t"," ","a","v","a","i","l","a","b","l","e","."," ","P","l","e","a","s","e"," ","e","n",
      "s","u","r","e"," ","t","h","e"," ","s","e","r","v","e","r"," ","i","s"," ","r","u","n","n",
      "i","n","g",".">>

ServerIssuesMessage ==
    <<"C","a","l","c","u","l","a","t","o","r"," ","s","e","r","v","i","c","e"," ","i","s"," ","e",
      "x","p","e","r","i","e","n","c","i","n","g"," ","i","s","s","u","e","s","."," ","P","l","e",
      "a","s","e"," ","t","r","y"," ","a","g","a","i","n"," ","l","a","t","e","r",".">>

TimedOutMessage == <<"C","a","l","c","u","l","a","t","o","r"," ","r","e","q","u","e","s","t"," ",
                     "t","i","m","e","d"," ","o","u","t","."," ","P","l","e","a","s","e"," ","t",
                     "r","y"," ","a","g","a","i","n",".">>

CannotConnectMessage ==
    <<"C","a","n","n","o","t"," ","c","o","n","n","e","c","t"," ","t","o"," ","c","a","l","c","u",
      "l","a","t","o","r"," ","s","e","r","v","i","c","e","."," ","P","l","e","a","s","e"," ","e",
      "n","s","u","r","e"," ","t","h","e"," ","s","e","r","v","e","r"," ","i","s"," ","r","u","n",
      "n","i","n","g"," ","o","n"," ","l","o","c","a","l","h","o","s","t",":","8","0","0","0",".">>

\* the try block of call_calculator once the probe was healthy: what it returns
invoke_result(post) ==
    IF post.kind = "response"
    THEN IF post.status_code = 200
         THEN IF ~post.body.json
              \* response.json() raises
              THEN Str(<<"U","n","e","x","p","e","c","t","e","d"," ","e","r","r","o","r"," ","c",
                         "a","l","l","i","n","g"," ","c","a","l","c","u","l","a","t","o","r",":",
                         " ">> \o
                       <<"E","x","p","e","c","t","i","n","g"," ","v","a","l","u","e",":"," ","l",
                         "i","n","e"," ","1"," ","c","o","l","u","m","n"," ","1"," ","(","c","h",
                         "a","r"," ","0",")">>)
              ELSE IF ~post.body.has_result
              \* result_data["result"] raises KeyError
              THEN Str(<<"U","n","e","x","p","e","c","t","e","d"," ","e","r","r","o","r"," ","c",
                         "a","l","l","i","n","g"," ","c","a","l","c","u","l","a","t","o","r",":",
                         " ","'","r","e","s","u","l","t","'">>)
              ELSE Number(post.body.result)
         ELSE IF post.status_code >= 400 /\ post.status_code < 500
         THEN LET error_detail ==
                      IF post.body.json
                      THEN IF post.body.has_detail THEN post.body.detail
                           ELSE <<"U","n","k","n","o","w","n"," ","e","r","r","o","r">>
                      ELSE IF Len(post.body.text) > 0 THEN post.body.text
                           ELSE <<"B","a","d"," ","r","e","q","u","e","s","t">>
              IN  Str(<<"C","a","l","c","u","l","a","t","i","o","n"," ","e","r","r","o","r",":",
                        " ">> \o error_detail)
         ELSE Str(ServerIssuesMessage)
    ELSE IF post.kind = "Timeout" THEN Str(TimedOutMessage)
    ELSE IF post.kind = "ConnectionError" THEN Str(CannotConnectMessage)
    ELSE IF post.kind = "RequestException"
    THEN Str(<<"N","e","t","w","o","r","k"," ","e","r","r","o","r"," ","c","a","l","l","i","n",
               "g"," ","c","a","l","c","u","l","a","t","o","r",":"," ">> \o post.message)
    ELSE Str(<<"U","n","e","x","p","e","c","t","e","d"," ","e","r","r","o","r"," ","c","a","l",
               "l","i","n","g"," ","c","a","l","c","u","l","a","t","o","r",":"," ">> \o post.message)

\* a keyword list that knows division by zero only
HasDivisionByZero(text) ==
    Bind(Lower(text), LAMBDA t : Contains(t, <<"d","i","v","i","s","i","o","n"," ","b","y"," ",
                                               "z","e","r","o">>))

\* any(keyword in str(result).lower() for keyword in [...]) of call_calculator_with_retry
HasNonRetryableKeyword(text) ==
    Bind(Lower(text), LAMBDA t :
        ContainsAny(t, {<<"c","a","l","c","u","l","a","t","i","o","n"," ","e","r","r","o","r">>, <<"e","x","p","r","e","s","s","i","o","n">>, <<"d","i","v","i","s","i","o","n",
                                                                 " ","b","y"," ","z","e","r","o">>,
                        <<"i","n","v","a","l","i","d">>}))

\* every string call_calculator can return, with its classification, computed once
ToolMessages ==
    {EmptyExpressionMessage, NotAvailableMessage}
        \cup {invoke_result(post).text : post \in {p \in PostOutcomes :
                                                       invoke_result(p).type = "str"}}

NonRetryableTable == {<<text, HasNonRetryableKeyword(text)>> : text \in ToolMessages}

\* isinstance(result, (int, float))
is_number(result) == result.type = "number"

\* a test that takes every error string for non-retryable
is_error_string(result) == result.type = "str"

\* a test that takes the "not available" message for non-retryable as well
is_non_retryable_or_unavailable(result) ==
    \/ result.text = NotAvailableMessage
    \/ (CHOOSE p \in NonRetryableTable : p[1] = result.text)[2]

\* the non-retryable test of call_calculator_with_retry
is_non_retryable(result) ==
    (CHOOSE p \in NonRetryableTable : p[1] = result.text)[2]

---------------------------------------------------------------------------
(* Question_3: call_calculator and call_calculator_with_retry, step by step. *)

\* the largest max_retries explored
MaxRetries == 2

\* the expressions passed in: only blankness is read by the adapter
ToolExpressions == {<< >>, <<" "," ">>, <<"2"," ","+"," ","3">>, <<"1","0"," ","/"," ","0">>}

Logged(event) == log' = Append(log, event)

Returns(value) ==
    /\ tool_pc' = "done"
    /\ tool_return' = [kind |-> "returned", value |-> value]

\* a caller calls call_calculator(expr)
CallCalculator(expr) ==
    /\ tool_pc = "idle"
    /\ tool_args' = [entry |-> "call_calculator", expr |-> expr, max_retries |-> 0]
    /\ tool_pc' = "call"
    /\ UNCHANGED <<tool_attempt, tool_result, tool_return, log>>
    /\ UNCHANGED not_tool

\* a caller calls call_calculator_with_retry(expr, max_retries)
CallCalculatorWithRetry(expr, max_retries) ==
    /\ tool_pc = "idle"
    /\ tool_args' = [entry |-> "call_calculator_with_retry", expr |-> expr,
                     max_retries |-> max_retries]
    /\ tool_attempt' = 0
    /\ tool_pc' = "loop"
    /\ UNCHANGED <<tool_result, tool_return, log>>
    /\ UNCHANGED not_tool

\* a loop over range(max_retries + 2): one attempt too many
LoopHeadExtraAttempt ==
    /\ tool_pc = "loop"
    /\ IF tool_attempt < tool_args.max_retries + 2
       THEN tool_pc' = "call" /\ UNCHANGED <<tool_return, log>>
       ELSE Returns(tool_result) /\ Logged([ev |-> "return"])
    /\ UNCHANGED <<tool_args, tool_attempt, tool_result>>
    /\ UNCHANGED not_tool

\* for attempt in range(max_retries + 1): the next iteration, or the return after the loop
LoopHead ==
    /\ tool_pc = "loop"
    /\ IF tool_attempt < tool_args.max_retries + 1
       THEN tool_pc' = "call" /\ UNCHANGED <<tool_return, log>>
       ELSE Returns(tool_result) /\ Logged([ev |-> "return"])
    /\ UNCHANGED <<tool_args, tool_attempt, tool_result>>
    /\ UNCHANGED not_tool

\* call_calculator up to the health check: a blank expression returns at once
EnterCallCalculator ==
    /\ tool_pc = "call"
    /\ IF Len(tool_args.expr) = 0 \/ IsBlank(tool_args.expr)
       THEN /\ tool_result' = Str(EmptyExpressionMessage)
            /\ tool_pc' = "called"
            /\ Logged([ev |-> "call", blank |-> TRUE])
       ELSE /\ tool_pc' = "health"
            /\ Logged([ev |-> "call", blank |-> FALSE])
            /\ UNCHANGED tool_result
    /\ UNCHANGED <<tool_args, tool_attempt, tool_return>>
    /\ UNCHANGED not_tool

\* if not check_calculator_health(): return "... not available ..."
HealthCheck(probe) ==
    /\ tool_pc = "health"
    /\ LET healthy == check_calculator_health(probe) IN
        /\ Logged([ev |-> "probe", outcome |-> probe])
        /\ IF healthy.raised
           THEN /\ tool_pc' = "done"
                /\ tool_return' = [kind |-> "raised"]
                /\ UNCHANGED tool_result
           ELSE IF healthy.value
           THEN tool_pc' = "invoke" /\ UNCHANGED <<tool_result, tool_return>>
           ELSE /\ tool_result' = Str(NotAvailableMessage)
                /\ tool_pc' = "called"
                /\ UNCHANGED tool_return
    /\ UNCHANGED <<tool_args, tool_attempt>>
    /\ UNCHANGED not_tool

\* the try block of call_calculator: the request and the handling of its outcome
Invoke(post) ==
    /\ tool_pc = "invoke"
    /\ tool_result' = invoke_result(post)
    /\ tool_pc' = "called"
    /\ Logged([ev |-> "post", outcome |-> post.kind,
                status |-> IF post.kind = "response" THEN post.status_code ELSE 0])
    /\ UNCHANGED <<tool_args, tool_attempt, tool_return>>
    /\ UNCHANGED not_tool

\* call_calculator returns to its caller, or to the loop of call_calculator_with_retry
CallReturns ==
    /\ tool_pc = "called"
    /\ Logged([ev |-> "result", value |-> tool_result])
    /\ IF tool_args.entry = "call_calculator"
       THEN Returns(tool_result)
       ELSE tool_pc' = "classify" /\ UNCHANGED tool_return
    /\ UNCHANGED <<tool_args, tool_attempt, tool_result>>
    /\ UNCHANGED not_tool

\* a loop body that sleeps after every failed attempt, the last one included
ClassifySleepingAfterLast ==
    /\ tool_pc = "classify"
    /\ IF is_number(tool_result) \/ is_non_retryable(tool_result)
       THEN Returns(tool_result) /\ Logged([ev |-> "return"]) /\ UNCHANGED tool_attempt
       ELSE tool_pc' = "sleep" /\ UNCHANGED <<tool_attempt, tool_return, log>>
    /\ UNCHANGED <<tool_args, tool_result>>
    /\ UNCHANGED not_tool

\* the body of the loop after the call
Classify ==
    /\ tool_pc = "classify"
    /\ IF is_number(tool_result) \/ is_non_retryable(tool_result)
       THEN Returns(tool_result) /\ Logged([ev |-> "return"]) /\ UNCHANGED tool_attempt
       ELSE IF tool_attempt < tool_args.max_retries
       THEN tool_pc' = "sleep" /\ UNCHANGED <<tool_attempt, tool_return, log>>
       ELSE /\ tool_pc' = "loop"
            /\ tool_attempt' = tool_attempt + 1
            /\ UNCHANGED <<tool_return, log>>
    /\ UNCHANGED <<tool_args, tool_result>>
    /\ UNCHANGED not_tool

\* time.sleep(1), then the next iteration
Sleep ==
    /\ tool_pc = "sleep"
    /\ Logged([ev |-> "sleep"])
    /\ tool_attempt' = tool_attempt + 1
    /\ tool_pc' = "loop"
    /\ UNCHANGED <<tool_args, tool_result, tool_return>>
    /\ UNCHANGED not_tool

InitTool ==
    /\ IdleSequential /\ IdleAgentic /\ IdleCalculator /\ IdleDecide /\ IdleTool /\ IdleSessions
    /\ IdleFn
    /\ uuids_drawn = 0

NextTool ==
    \/ \E expr \in ToolExpressions : CallCalculator(expr)
    \/ \E expr \in ToolExpressions, max_retries \in 0..MaxRetries :
           CallCalculatorWithRetry(expr, max_retries)
    \/ LoopHead
    \/ EnterCallCalculator
    \/ \E probe \in ProbeOutcomes : HealthCheck(probe)
    \/ \E post \in PostOutcomes : Invoke(post)
    \/ CallReturns
    \/ Classify
    \/ Sleep

SpecTool == InitTool /\ [][NextTool]_vars

\* the interpreter keeps running a call that has a next step
SpecToolFair == SpecTool /\ WF_vars(NextTool)

---------------------------------------------------------------------------
(* Question_3: agentic_bot.py, the calculator bot.  The calculator tool is  *)
(* its environment here: a health probe answers healthy or not, and         *)
(* call_calculator_with_retry returns one of the values it can return.      *)

\* the keys of IntentExtractor.patterns of Question_3, in dict order
CalcIntents == <<"calc_intent", "greeting", "goodbye">>

\* any(pattern.search(text) for pattern in compiled_patterns[intent]); t is the text
\* lowered (re.IGNORECASE).  The first four calc_intent patterns are those of planner.py.
CalcIntentSearch(intent, t) ==
    LET P == Positions(t) IN
    CASE intent = "calc_intent" ->
            \/ PlannerIntentSearch("calc_intent", t)
            \* plus|minus|times|divided\s+by
            \/ ContainsAny(t, {<<"p","l","u","s">>, <<"m","i","n","u","s">>, <<"t","i","m","e","s">>})
            \/ ReLit(t, RePlus(t, ReLit(t, P, <<"d","i","v","i","d","e","d">>), Whitespace), <<"b","y">>) # {}
            \* sum\s+of|product\s+of|difference\s+of|quotient\s+of
            \/ \E w \in {<<"s","u","m">>, <<"p","r","o","d","u","c","t">>, <<"d","i","f","f","e","r","e","n","c","e">>, <<"q","u","o","t","i","e","n","t">>} :
                   ReLit(t, RePlus(t, ReLit(t, P, w), Whitespace), <<"o","f">>) # {}
      [] intent = "greeting" ->
            \* ^(hi|hello|hey|good\s+(morning|afternoon|evening))
            \/ \E w \in {<<"h","i">>, <<"h","e","l","l","o">>, <<"h","e","y">>} : ReLit(t, {1}, w) # {}
            \/ \E w \in {<<"m","o","r","n","i","n","g">>, <<"a","f","t","e","r","n","o","o","n">>, <<"e","v","e","n","i","n","g">>} :
                   ReLit(t, RePlus(t, ReLit(t, {1}, <<"g","o","o","d">>), Whitespace), w) # {}
            \* ^(what\'s\s+up|how\s+are\s+you|how\s+do\s+you\s+do)
            \/ ReLit(t, RePlus(t, ReLit(t, {1}, <<"w","h","a","t","'","s">>), Whitespace), <<"u","p">>) # {}
            \/ ReLit(t, RePlus(t, ReLit(t, RePlus(t, ReLit(t, {1}, <<"h","o","w">>), Whitespace),
                                        <<"a","r","e">>), Whitespace), <<"y","o","u">>) # {}
            \/ ReLit(t, RePlus(t, ReLit(t, RePlus(t, ReLit(t, RePlus(t, ReLit(t, {1},
                   <<"h","o","w">>), Whitespace), <<"d","o">>), Whitespace), <<"y","o","u">>), Whitespace),
                   <<"d","o">>) # {}
      [] intent = "goodbye" ->
            \* (bye|goodbye|see\s+you|farewell|thanks?\s*,?\s*(bye|goodbye)?): every item
            \* after "thank" is optional
            \/ ContainsAny(t, {<<"b","y","e">>, <<"g","o","o","d","b","y","e">>, <<"f","a","r","e","w","e","l","l">>, <<"t","h","a","n","k">>})
            \/ ReLit(t, RePlus(t, ReLit(t, P, <<"s","e","e">>), Whitespace), <<"y","o","u">>) # {}
            \* (that\'s\s+all|i\'m\s+done|thank\s+you\s+very\s+much)
            \/ ReLit(t, RePlus(t, ReLit(t, P, <<"t","h","a","t","'","s">>), Whitespace), <<"a","l","l">>) # {}
            \/ ReLit(t, RePlus(t, ReLit(t, P, <<"i","'","m">>), Whitespace), <<"d","o","n","e">>) # {}

\* IntentExtractor.extract_intents of Question_3
calc_extract_intents(text) ==
    Bind(Lower(text), LAMBDA t :
        SelectSeq(CalcIntents, LAMBDA intent : CalcIntentSearch(intent, t)))

\* IntentExtractor.extract_missing_slots of Question_3; the context argument is not read
calc_extract_missing_slots(text, context) ==
    Bind(Lower(text), LAMBDA t :
        IF /\ CalcIntentSearch("calc_intent", t)
           /\ ~HasBinaryExpression(text)
           /\ ContainsAny(t, {<<"c","a","l","c","u","l","a","t","e">>, <<"c","o","m","p","u","t","e">>, <<"m","a","t","h">>})
        THEN <<"mathematical_expression">>
        ELSE << >>)

\* the utterances fed to the calculator bot
CalcUtterances ==
    { << >>,
      <<" ","\t">>,
      <<"H","e","l","l","o">>,
      <<"W","h","a","t"," ","i","s"," ","5"," ","+"," ","3","?">>,
      <<"C","a","l","c","u","l","a","t","e">>,
      <<"1","0"," ","/"," ","0">>,
      <<"T","h","a","n","k","s",","," ","b","y","e">>,
      <<"7"," ","t","i","m","e","s"," ","6",","," ","g","o","o","d","b","y","e">>,
      <<"b","a","n","a","n","a">> }

\* the utterances fed to the calculator bot when the calculator service answers them
ServedUtterances ==
    { <<"H","e","l","l","o">>,
      <<"W","h","a","t"," ","i","s"," ","1","5"," ","+"," ","2","5","?">>,
      <<"C","a","l","c","u","l","a","t","e"," ","8"," ","*"," ","7">>,
      <<"1","5"," ","+"," ","2","5">>,
      <<" ","8"," ","*"," ","7"," ">>,
      <<"(","2"," ","+"," ","3",")"," ","*"," ","4">>,
      <<"2"," ","+"," ","3"," ","*"," ","4">>,
      <<"5"," ","-"," ","5">>,
      <<"1","0"," ","/"," ","0">>,
      <<"C","a","l","c","u","l","a","t","e">>,
      <<"T","h","a","n","k","s",","," ","b","y","e">> }

\* the intents and missing slots of each utterance, stripped, computed once
CalcTable ==
    {<<u, [intents       |-> calc_extract_intents(Strip(u)),
           missing_slots |-> calc_extract_missing_slots(Strip(u), << >>)]>> :
        u \in CalcUtterances \cup ServedUtterances}

CalcFactsOf(raw_input) == (CHOOSE p \in CalcTable : p[1] = raw_input)[2]

\* AgenticConversationMemory.__init__ of Question_3
NewCalculatorMemory(uuid) ==
    [session_id            |-> uuid,
     turns                 |-> << >>,
     current_state         |-> INITIAL,
     context               |-> << >>,
     pending_clarification |-> NoResponse,
     calculation_history   |-> << >>]

\* CalculatorBot.__init__ and reset_conversation: a new memory, and the probe of
\* _check_calculator_status
NewCalculatorBot(uuid, healthy) ==
    [memory |-> NewCalculatorMemory(uuid), calculator_available |-> healthy]

\* an add_turn that tracks a calculation only when its result is truthy (not 0)
calc_add_turn_truthy(m, user_input, bot_response, action_taken, intents_detected, missing_slots, calculation_result) ==
    [m EXCEPT
        !.turns = Append(@,
            [user_input         |-> user_input,
             bot_response       |-> bot_response,
             action_taken       |-> action_taken,
             intents_detected   |-> intents_detected,
             missing_slots      |-> missing_slots,
             calculation_result |-> calculation_result]),
        !.calculation_history =
            IF calculation_result # NoResponse /\ calculation_result # Number(0)
            THEN Append(@, [expression |-> user_input, result |-> calculation_result])
            ELSE @]

\* AgenticConversationMemory.add_turn of Question_3; calculation_result is a Number, or
\* NoResponse for None
calc_add_turn(m, user_input, bot_response, action_taken, intents_detected, missing_slots, calculation_result) ==
    [m EXCEPT
        !.turns = Append(@,
            [user_input         |-> user_input,
             bot_response       |-> bot_response,
             action_taken       |-> action_taken,
             intents_detected   |-> intents_detected,
             missing_slots      |-> missing_slots,
             calculation_result |-> calculation_result]),
        !.calculation_history =
            IF calculation_result # NoResponse
            THEN Append(@, [expression |-> user_input, result |-> calculation_result])
            ELSE @]

\* a _decide_action that looks for a calculation before it looks for a goodbye
_decide_action_calc_first(intents, missing_slots) ==
    IF Len(missing_slots) > 0 THEN ASK_FOLLOWUP
    ELSE IF InList("calc_intent", intents) THEN CALL_CALCULATOR
    ELSE IF InList("goodbye", intents) THEN FINISH
    ELSE IF InList("greeting", intents) THEN FINISH
    ELSE ASK_FOLLOWUP

\* CalculatorBot._decide_action
_decide_action(intents, missing_slots) ==
    IF Len(missing_slots) > 0 THEN ASK_FOLLOWUP
    ELSE IF InList("goodbye", intents) THEN FINISH
    ELSE IF InList("calc_intent", intents) THEN CALL_CALCULATOR
    ELSE IF InList("greeting", intents) THEN FINISH
    ELSE ASK_FOLLOWUP

\* CalculatorBot._execute_action: the reply, the calculation result, and
\* calculator_available after it.  healthy is what a re-check of the service would say,
\* tool_value what call_calculator_with_retry would return.
_execute_action(bot, action, missing_slots, intents, healthy, tool_value) ==
    LET Reply(response, calculation_result, available) ==
            [response |-> response, calculation_result |-> calculation_result,
             calculator_available |-> available]
        available == bot.calculator_available \/ healthy
    IN  CASE action = ASK_FOLLOWUP ->
                IF InList("mathematical_expression", missing_slots)
                THEN Reply([kind |-> "provide_expression"], NoResponse,
                           bot.calculator_available)
                ELSE Reply([kind |-> "im_a_calculator_bot"], NoResponse,
                           bot.calculator_available)
          [] action = CALL_CALCULATOR ->
                IF ~available
                THEN Reply([kind |-> "calculator_unavailable"], NoResponse, FALSE)
                ELSE IF tool_value.type = "number"
                THEN Reply([kind |-> "the_result_is", result |-> tool_value.number],
                           tool_value, TRUE)
                ELSE Reply([kind |-> "couldnt_calculate", error |-> tool_value.text],
                           NoResponse, TRUE)
          [] action = FINISH ->
                IF InList("greeting", intents)
                THEN Reply([kind |-> "hello"], NoResponse, bot.calculator_available)
                ELSE IF Len(bot.memory.calculation_history) > 0
                THEN Reply([kind |-> "goodbye_helped",
                            calc_count |-> Len(bot.memory.calculation_history)],
                           NoResponse, bot.calculator_available)
                ELSE Reply([kind |-> "goodbye"], NoResponse, bot.calculator_available)
          [] OTHER -> Reply([kind |-> "not_sure_how_to_handle"], NoResponse,
                            bot.calculator_available)

\* CalculatorBot.process_input: the bot after the call and what it returns
calculator_process_input(bot, raw_input, healthy, tool_value) ==
    IF Len(raw_input) = 0 \/ IsBlank(raw_input)
    THEN Handled(bot, [kind |-> "didnt_catch_that"])
    ELSE Bind(CalcFactsOf(raw_input), LAMBDA f :
         Bind(_decide_action(f.intents, f.missing_slots), LAMBDA action :
         Bind(_execute_action(bot, action, f.missing_slots, f.intents, healthy, tool_value),
              LAMBDA result :
             Handled([memory |->
                          calc_add_turn([bot.memory EXCEPT
                                            !.current_state = StateAfterAction(action)],
                                        Strip(raw_input), result.response, action,
                                        f.intents, f.missing_slots,
                                        result.calculation_result),
                      calculator_available |-> result.calculator_available],
                     result.response))))

\* what call_calculator_with_retry returns to the bot
CalcToolValues ==
    {Number(0), Number(8), Str(TimedOutMessage),
     Str(<<"C","a","l","c","u","l","a","t","i","o","n"," ","e","r","r","o","r",":"," ","D","i",
           "v","i","s","i","o","n"," ","b","y"," ","z","e","r","o"," ","i","s"," ","n","o","t",
           " ","a","l","l","o","w","e","d">>)}

\* CalculatorBot.__init__
InitCalculator ==
    /\ \E healthy \in BOOLEAN : calculator = NewCalculatorBot(1, healthy)
    /\ calculator_response = NoResponse
    /\ uuids_drawn = 1
    /\ IdleSequential /\ IdleAgentic /\ IdleDecide /\ IdleTool /\ IdleSessions
    /\ IdleFn

MaxCalcTurns == 2

CalculatorProcessInput(user_input, healthy, tool_value) ==
    /\ Len(calculator.memory.turns) < MaxCalcTurns
    /\ \E r \in {calculator_process_input(calculator, user_input, healthy, tool_value)} :
        /\ calculator' = r.m
        /\ calculator_response' = r.response
    /\ UNCHANGED <<uuids_drawn, not_calculator>>

\* CalculatorBot.reset_conversation
CalculatorResetConversation(healthy) ==
    /\ uuids_drawn < MaxSessions
    /\ calculator' = NewCalculatorBot(uuids_drawn + 1, healthy)
    /\ uuids_drawn' = uuids_drawn + 1
    /\ UNCHANGED <<calculator_response, not_calculator>>

NextCalculator ==
    \/ \E user_input \in CalcUtterances, healthy \in BOOLEAN, tool_value \in CalcToolValues :
           CalculatorProcessInput(user_input, healthy, tool_value)
    \/ \E healthy \in BOOLEAN : CalculatorResetConversation(healthy)

SpecCalculator == InitCalculator /\ [][NextCalculator]_vars

---------------------------------------------------------------------------
(* _decide_action of the calculator bot as a function of its arguments,    *)
(* with the action executed on a new bot.                                  *)

\* the intents of IntentExtractor.patterns of Question_3, and one it does not know
CalcDecideIntents == {"calc_intent", "greeting", "goodbye", "unknown_intent"}

\* the slot of extract_missing_slots, and one it never reports
CalcSlots == {"mathematical_expression", "missing_info"}

InitCalcDecide ==
    /\ fn_args \in [intents : Lists(CalcDecideIntents), missing_slots : Lists(CalcSlots),
                     healthy : BOOLEAN]
    /\ fn_returns = << >>
    /\ uuids_drawn = 0
    /\ IdleSequential /\ IdleAgentic /\ IdleCalculator /\ IdleDecide /\ IdleTool
    /\ IdleSessions

\* action = self._decide_action(intents, missing_slots), then
\* self._execute_action(action, user_input, intents), on a new bot; the missing slots
\* _execute_action extracts again from user_input are those _decide_action was given
DecideAndExecute(tool_value) ==
    /\ Len(fn_returns) = 0
    /\ \E action \in {_decide_action(fn_args.intents, fn_args.missing_slots)} :
          fn_returns' =
              <<[action   |-> action,
                 response |-> _execute_action(NewCalculatorBot(1, fn_args.healthy), action,
                                              fn_args.missing_slots, fn_args.intents,
                                              fn_args.healthy, tool_value).response]>>
    /\ UNCHANGED <<fn_args, not_fn>>

NextCalcDecide == \E tool_value \in CalcToolValues : DecideAndExecute(tool_value)

SpecCalcDecide == InitCalcDecide /\ [][NextCalcDecide]_vars

---------------------------------------------------------------------------
(* The three bots side by side: a run is a run of one of them.             *)

InitBots == InitSequential \/ InitAgentic \/ InitCalculator

NextBots ==
    \/ memory # << >> /\ NextSequential
    \/ agentic # << >> /\ NextAgentic
    \/ calculator # << >> /\ NextCalculator

SpecBots == InitBots /\ [][NextBots]_vars

---------------------------------------------------------------------------
(* The two bots that select an action per turn: a run is a run of one.     *)

InitPlanners == InitAgentic \/ InitCalculator

NextPlanners ==
    \/ agentic # << >> /\ NextAgentic
    \/ calculator # << >> /\ NextCalculator

SpecPlanners == InitPlanners /\ [][NextPlanners]_vars

---------------------------------------------------------------------------
(* Several SequentialConversationBot instances, each driven by its own      *)
(* thread.  A process_input call takes two steps, so that the calls of      *)
(* different bots interleave in the middle: _generate_response, which       *)
(* updates state and context, and add_turn.  Every ConversationMemory       *)
(* refers to the one dict data.OUTLETS_DB.                                  *)

Bots == {1, 2}

MaxSessionCalls == 2

\* the utterances the threads send
SessionUtterances ==
    { <<"I","s"," ","t","h","e","r","e"," ","a","n"," ","o","u","t","l","e","t"," ","i","n"," ",
        "P","J","?">>,
      <<"S","S"," ","2",","," ","w","h","a","t","'","s"," ","t","h","e"," ","o","p","e","n","i",
        "n","g"," ","t","i","m","e","?">>,
      <<"A","c","t","u","a","l","l","y",","," ","w","h","a","t"," ","a","b","o","u","t"," ","K",
        "u","a","l","a"," ","L","u","m","p","u","r","?">> }

\* a memory attribute that belongs to the class: every bot sees the one last assigned
class_memory(all, bot, m) == [b \in DOMAIN all |-> [all[b] EXCEPT !.memory = m]]

\* self.memory = ...: the memory is an attribute of the instance
own_memory(all, bot, m) == [all EXCEPT ![bot].memory = m]

\* a call a thread made on its bot
Called(call, user_input, uuid) == [call |-> call, user_input |-> user_input, uuid |-> uuid]

\* self.outlets_db = OUTLETS_DB: the memory reads the shared dict as it is now
WithCatalog(m) == [m EXCEPT !.outlets_db = outlets_db]

\* bot = SequentialConversationBot(), once per thread
InitSessions ==
    /\ sessions = [bot \in Bots |->
                      [memory   |-> NewConversationMemory(bot),
                       pending  |-> NoResponse,
                       calls    |-> << >>,
                       response |-> NoResponse]]
    /\ outlets_db = OUTLETS_DB
    /\ uuids_drawn = Cardinality(Bots)
    /\ IdleSequential /\ IdleAgentic /\ IdleCalculator /\ IdleDecide /\ IdleTool /\ IdleFn

\* process_input up to the return of _generate_response
SessionRespond(bot, user_input) ==
    /\ sessions[bot].pending = NoResponse
    /\ Len(sessions[bot].calls) < MaxSessionCalls
    /\ IF Len(user_input) = 0 \/ IsBlank(user_input)
       THEN /\ sessions' = [sessions EXCEPT
                               ![bot].response = [kind |-> "didnt_catch_that"],
                               ![bot].calls = Append(@, Called("process_input", user_input, 0))]
            /\ UNCHANGED outlets_db
       ELSE \E r \in {_generate_response(WithCatalog(sessions[bot].memory),
                                         FactsOf(user_input))} :
                /\ sessions' = [own_memory(sessions, bot, r.m) EXCEPT
                                   ![bot].pending = [user_input |-> user_input,
                                                     response   |-> r.response],
                                   ![bot].calls =
                                       Append(@, Called("process_input", user_input, 0))]
                /\ outlets_db' = r.m.outlets_db
    /\ UNCHANGED <<uuids_drawn, not_sessions>>

\* the rest of process_input: add_turn and the return
SessionRecord(bot) ==
    /\ sessions[bot].pending # NoResponse
    /\ \E m \in {sessions[bot].memory}, pending \in {sessions[bot].pending} :
          IF add_turn_raises(m)
          THEN sessions' = [sessions EXCEPT
                               ![bot].pending = NoResponse,
                               ![bot].response =
                                   [kind |-> "raised", exception |-> "AttributeError"]]
          ELSE sessions' = [own_memory(sessions, bot,
                                       add_turn(m, pending.user_input, pending.response,
                                                FactsOf(pending.user_input).entities))
                               EXCEPT ![bot].pending = NoResponse,
                                      ![bot].response = pending.response]
    /\ UNCHANGED <<outlets_db, uuids_drawn, not_sessions>>

\* reset_conversation of one bot
SessionReset(bot) ==
    /\ sessions[bot].pending = NoResponse
    /\ Len(sessions[bot].calls) < MaxSessionCalls
    /\ sessions' = [own_memory(sessions, bot, reset_conversation(uuids_drawn + 1)) EXCEPT
                       ![bot].calls = Append(@, Called("reset_conversation", << >>,
                                                       uuids_drawn + 1))]
    /\ uuids_drawn' = uuids_drawn + 1
    /\ UNCHANGED <<outlets_db, not_sessions>>

NextSessions ==
    \/ \E bot \in Bots, user_input \in SessionUtterances : SessionRespond(bot, user_input)
    \/ \E bot \in Bots : SessionRecord(bot)
    \/ \E bot \in Bots : SessionReset(bot)

SpecSessions == InitSessions /\ [][NextSessions]_vars

---------------------------------------------------------------------------
(* extract_missing_slots called on its own: one utterance, several calls,   *)
(* and between the calls the session moves on (another state, another       *)
(* context to pass).                                                        *)

MaxExtractCalls == 3

\* the extractor of planner.py or of Question_3, and a text as process_input passes it:
\* an utterance, stripped
ExtractTexts ==
    {[extractor |-> "planner", text |-> Strip(u)] :
        u \in {v \in PlanUtterances : Len(v) > 0 /\ ~IsBlank(v)}}
    \cup {[extractor |-> "calculator", text |-> Strip(u)] :
             u \in {v \in CalcUtterances : Len(v) > 0 /\ ~IsBlank(v)}}

\* the context argument: None, or the context of a session some turns old
ExtractContexts ==
    { << >>,
      [last_intents |-> <<"calc_intent">>],
      [last_intents |-> <<"outlet_query">>,
       missing_slots |-> <<"location_or_specific_query">>] }

InitExtract ==
    /\ \E call \in ExtractTexts, state \in AgenticConversationState,
          context \in ExtractContexts :
            fn_args = [extractor |-> call.extractor, text |-> call.text,
                       state |-> state, context |-> context]
    /\ fn_returns = << >>
    /\ uuids_drawn = 0
    /\ IdleSequential /\ IdleAgentic /\ IdleCalculator /\ IdleDecide /\ IdleTool
    /\ IdleSessions

\* one call of extract_missing_slots(text, context)
ExtractMissingSlots ==
    /\ Len(fn_returns) < MaxExtractCalls
    /\ fn_returns' = Append(fn_returns,
           [context |-> fn_args.context,
            value   |-> IF fn_args.extractor = "planner"
                        THEN extract_missing_slots(fn_args.text, fn_args.context)
                        ELSE calc_extract_missing_slots(fn_args.text, fn_args.context)])
    /\ UNCHANGED <<fn_args, not_fn>>

\* turns in between: the session is in another state and has another context
SessionMovesOn ==
    /\ Len(fn_returns) < MaxExtractCalls
    /\ \E state \in AgenticConversationState, context \in ExtractContexts :
          /\ <<state, context>> # <<fn_args.state, fn_args.context>>
          /\ fn_args' = [fn_args EXCEPT !.state = state, !.context = context]
    /\ UNCHANGED <<fn_returns, not_fn>>

NextExtract ==
    \/ ExtractMissingSlots
    \/ SessionMovesOn

SpecExtract == InitExtract /\ [][NextExtract]_vars

---------------------------------------------------------------------------
(* Question_3: server.py, the calculator service, and the calculator bot    *)
(* talking to it.  A value of eval is a fraction [num, den] in lowest terms *)
(* with den > 0; DivisionByZero stands for the ZeroDivisionError that eval  *)
(* raises and that passes through every operation applied to it.           *)

\* the character at position i; "" before the start and past the end
CharAt(t, i) == IF i >= 1 /\ i <= Len(t) THEN t[i] ELSE ""

RECURSIVE SkipClass(_, _, _)
\* class* at i (greedy): the first position at or after i whose character is outside class
SkipClass(t, i, class) ==
    IF CharAt(t, i) \in class THEN SkipClass(t, i + 1, class) ELSE i

\* \d+(?:\.\d+)? at i: the position after the match, 0 when it does not match
NumberEnd(t, i) ==
    IF CharAt(t, i) \notin Digits THEN 0
    ELSE LET j == SkipClass(t, i, Digits)
         IN  IF CharAt(t, j) = "." /\ CharAt(t, j + 1) \in Digits
             THEN SkipClass(t, j + 1, Digits)
             ELSE j

\* \s*[\+\-\*\/]\s*\d+(?:\.\d+)? at i
OperationEnd(t, i) ==
    LET j == SkipClass(t, i, Whitespace)
    IN  IF CharAt(t, j) \in Operators
        THEN NumberEnd(t, SkipClass(t, j + 1, Whitespace))
        ELSE 0

RECURSIVE OperationsEnd(_, _)
\* (?:\s*[\+\-\*\/]\s*\d+(?:\.\d+)?)* at i: as many operations as match
OperationsEnd(t, i) ==
    LET e == OperationEnd(t, i)
    IN  IF e = 0 THEN i ELSE OperationsEnd(t, e)

\* simple_pattern at i, which is also the head of the first alternative of math_pattern
SimpleEnd(t, i) ==
    LET n == NumberEnd(t, i)
    IN  IF n = 0 THEN 0 ELSE OperationEnd(t, n)

\* the first alternative of math_pattern at i: number, operation, operations
PlainEnd(t, i) ==
    LET e == SimpleEnd(t, i)
    IN  IF e = 0 THEN 0 ELSE OperationsEnd(t, e)

\* the second alternative of math_pattern at i: a parenthesised operation, operations
GroupEnd(t, i) ==
    IF CharAt(t, i) # "(" THEN 0
    ELSE LET e == SimpleEnd(t, SkipClass(t, i + 1, Whitespace))
         IN  IF e = 0 THEN 0
             ELSE LET c == SkipClass(t, e, Whitespace)
                  IN  IF CharAt(t, c) = ")" THEN OperationsEnd(t, c + 1) ELSE 0

\* math_pattern at i, the first alternative tried first
MathEnd(t, i) == IF PlainEnd(t, i) # 0 THEN PlainEnd(t, i) ELSE GroupEnd(t, i)

\* a search for a pattern given by its end function: the text of the leftmost match,
\* << >> when there is none (a match is never empty)
Search(t, End(_, _)) ==
    LET starts == {i \in 1..Len(t) : End(t, i) # 0}
    IN  IF starts = {} THEN << >>
        ELSE LET i == SetMin(starts) IN SubSeq(t, i, End(t, i) - 1)

Fraction(num, den) == [num |-> num, den |-> den]

DivisionByZero == Fraction(0, 0)

RECURSIVE Gcd(_, _)
Gcd(a, b) == IF b = 0 THEN a ELSE Gcd(b, a % b)

Abs(n) == IF n < 0 THEN -n ELSE n

\* num / den in lowest terms, den # 0
Lowest(num, den) ==
    LET g == Gcd(Abs(num), Abs(den))
        s == IF den < 0 THEN -1 ELSE 1
    IN  Fraction((s * num) \div g, (s * den) \div g)

\* a op b as eval computes it
Apply(op, a, b) ==
    IF a = DivisionByZero \/ b = DivisionByZero THEN DivisionByZero
    ELSE CASE op = "+" -> Lowest(a.num * b.den + b.num * a.den, a.den * b.den)
           [] op = "-" -> Lowest(a.num * b.den - b.num * a.den, a.den * b.den)
           [] op = "*" -> Lowest(a.num * b.num, a.den * b.den)
           [] op = "/" -> IF b.num = 0 THEN DivisionByZero
                          ELSE Lowest(a.num * b.den, a.den * b.num)

DigitValue(c) == CHOOSE d \in 0..9 : ToString(d) = c

RECURSIVE DigitsValue(_, _, _)
\* int() of the digits of t from i up to, not including, e
DigitsValue(t, i, e) ==
    IF i >= e THEN 0 ELSE DigitsValue(t, i, e - 1) * 10 + DigitValue(t[e - 1])

RECURSIVE Power10(_)
Power10(k) == IF k = 0 THEN 1 ELSE 10 * Power10(k - 1)

\* the value of the number literal of t from i up to, not including, e
Literal(t, i, e) ==
    LET j == SkipClass(t, i, Digits)
    IN  IF j = e THEN Fraction(DigitsValue(t, i, e), 1)
        ELSE Lowest(DigitsValue(t, i, j) * Power10(e - j - 1) + DigitsValue(t, j + 1, e),
                    Power10(e - j - 1))

RECURSIVE EvalOperations(_, _, _, _, _)
\* the operations of t from i on, with Python's precedence: sum is what was added up so
\* far, sign the pending + or -, and term the product being multiplied and divided
EvalOperations(t, i, sum, sign, term) ==
    LET j == SkipClass(t, i, Whitespace)
    IN  IF CharAt(t, j) \notin Operators THEN Apply(sign, sum, term)
        ELSE LET k == SkipClass(t, j + 1, Whitespace)
                 e == NumberEnd(t, k)
             IN  IF t[j] \in {"*", "/"}
                 THEN EvalOperations(t, e, sum, sign, Apply(t[j], term, Literal(t, k, e)))
                 ELSE EvalOperations(t, e, Apply(sign, sum, term), t[j], Literal(t, k, e))

\* eval(math_expr) for a match of math_pattern or simple_pattern
Eval(t) ==
    IF CharAt(t, 1) = "("
    THEN LET a == SkipClass(t, 2, Whitespace)
             b == NumberEnd(t, a)
             j == SkipClass(t, b, Whitespace)
             k == SkipClass(t, j + 1, Whitespace)
             e == NumberEnd(t, k)
             c == SkipClass(t, e, Whitespace)
         IN  EvalOperations(t, c + 1, Fraction(0, 1), "+",
                            Apply(t[j], Literal(t, a, b), Literal(t, k, e)))
    ELSE LET e == NumberEnd(t, 1)
         IN  EvalOperations(t, e, Fraction(0, 1), "+", Literal(t, 1, e))

\* what eval refuses to parse in a text of allowed characters that matched: an integer
\* literal with a leading zero that is not zero
IsSyntaxError(t) ==
    \E i \in 1..Len(t) :
        /\ t[i] = "0" /\ CharAt(t, i - 1) \notin Digits \cup {"."}
        /\ CharAt(t, i + 1) \in Digits
        /\ CharAt(t, SkipClass(t, i, Digits)) # "."
        /\ \E j \in i..(SkipClass(t, i, Digits) - 1) : t[j] # "0"

\* str.replace(' ', '')
WithoutSpaces(t) == SelectSeq(t, LAMBDA c : c # " ")

ValueError(message) == [raised |-> TRUE, message |-> message]

\* float(result)
Float(q) ==
    IF q.den = 1 THEN [raised |-> FALSE, number |-> q.num]
    ELSE [raised |-> FALSE, number |-> q.num, over |-> q.den]

AllowedChars == Digits \cup Operators \cup {".", "(", ")", " "}

\* calc_api from the character check on
evaluate(math_expr) ==
    IF \E i \in 1..Len(math_expr) : math_expr[i] \notin AllowedChars
    THEN ValueError(<<"I","n","v","a","l","i","d"," ","c","h","a","r","a","c","t","e","r","s"," ",
                      "i","n"," ","e","x","p","r","e","s","s","i","o","n">>)
    ELSE IF \/ Contains(WithoutSpaces(math_expr), <<"/","0">>)
            \/ Contains(math_expr, <<"/"," ","0">>)
    THEN ValueError(<<"D","i","v","i","s","i","o","n"," ","b","y"," ","z","e","r","o"," ","i","s",
                      " ","n","o","t"," ","a","l","l","o","w","e","d">>)
    ELSE IF IsSyntaxError(math_expr)
    THEN ValueError(<<"I","n","v","a","l","i","d"," ","e","x","p","r","e","s","s","i","o","n",":",
                      " ","l","e","a","d","i","n","g"," ","z","e","r","o","s"," ","i","n"," ","d",
                      "e","c","i","m","a","l"," ","i","n","t","e","g","e","r"," ","l","i","t","e",
                      "r","a","l","s"," ","a","r","e"," ">> \o
                    <<"n","o","t"," ","p","e","r","m","i","t","t","e","d",";"," ","u","s","e"," ",
                      "a","n"," ","0","o"," ","p","r","e","f","i","x"," ","f","o","r"," ","o","c",
                      "t","a","l"," ","i","n","t","e","g","e","r","s"," ","(","<","s","t","r","i",
                      "n","g",">",","," ","l","i","n","e"," ","1",")">>)
    ELSE IF Eval(math_expr) = DivisionByZero
    THEN ValueError(<<"D","i","v","i","s","i","o","n"," ","b","y"," ","z","e","r","o"," ","i","s",
                      " ","n","o","t"," ","a","l","l","o","w","e","d">>)
    ELSE Float(Eval(math_expr))

\* server.calc_api
calc_api(expr) ==
    LET found == Search(expr, MathEnd)
    IN  IF Len(found) > 0
        THEN IF Strip(expr) # Strip(found)
             THEN ValueError(<<"I","n","v","a","l","i","d"," ","c","h","a","r","a","c","t","e",
                               "r","s"," ","i","n"," ","e","x","p","r","e","s","s","i","o","n">>)
             ELSE evaluate(Strip(found))
        ELSE IF Len(Search(expr, SimpleEnd)) > 0
        THEN evaluate(Search(expr, SimpleEnd))
        ELSE ValueError(<<"N","o"," ","v","a","l","i","d"," ","m","a","t","h","e","m","a","t","i",
                          "c","a","l"," ","e","x","p","r","e","s","s","i","o","n"," ","f","o","u",
                          "n","d">>)

MaxExpressionLen == 100

\* POST /calculate: CalcRequest's validator, then calculate
calculate(expression) ==
    IF IsBlank(expression)
    THEN Response(422, [json |-> TRUE, has_detail |-> TRUE,
                        detail |-> <<"V","a","l","u","e"," ","e","r","r","o","r",","," ","E","x",
                                     "p","r","e","s","s","i","o","n"," ","c","a","n","n","o","t",
                                     " ","b","e"," ","e","m","p","t","y">>])
    ELSE IF Len(expression) > MaxExpressionLen
    THEN Response(422, [json |-> TRUE, has_detail |-> TRUE,
                        detail |-> <<"V","a","l","u","e"," ","e","r","r","o","r",","," ","E","x",
                                     "p","r","e","s","s","i","o","n"," ","t","o","o"," ","l","o",
                                     "n","g">>])
    ELSE LET result == calc_api(Strip(expression))
         IN  IF result.raised
             THEN Response(400, [json |-> TRUE, has_detail |-> TRUE,
                                 detail |-> result.message])
             ELSE Response(200, [json |-> TRUE, has_result |-> TRUE,
                                 result |-> result.number])

\* call_calculator_with_retry(expr) against the running service: the probe is healthy and
\* the service gives every attempt the same answer, so the attempts return one value
served(expr) ==
    IF IsBlank(expr) THEN Str(EmptyExpressionMessage)
    ELSE invoke_result(calculate(expr))

\* what the service makes of each utterance, stripped as process_input passes it,
\* computed once
ServedTable == {<<u, served(Strip(u))>> : u \in ServedUtterances}

ServedValue(user_input) == (CHOOSE p \in ServedTable : p[1] = user_input)[2]

\* CalculatorBot() with the service running
InitServed ==
    /\ calculator = NewCalculatorBot(1, TRUE)
    /\ calculator_response = NoResponse
    /\ uuids_drawn = 1
    /\ IdleSequential /\ IdleAgentic /\ IdleDecide /\ IdleTool /\ IdleSessions
    /\ IdleFn

\* CalculatorBot.process_input with the service running
ServedProcessInput(user_input) ==
    CalculatorProcessInput(user_input, TRUE, ServedValue(user_input))

NextServed ==
    \/ \E user_input \in ServedUtterances : ServedProcessInput(user_input)
    \/ CalculatorResetConversation(TRUE)

SpecServed == InitServed /\ [][NextServed]_vars

---------------------------------------------------------------------------
(* Properties of the sequential bot (SpecSequential).                      *)

\* C1: the turn history of the current session holds the turn numbers 1, 2, ..., n in
\* order, whatever process_input and reset_conversation calls came before.
TurnNumbersCountFromOne ==
    \A i \in 1..Len(memory.turns) : memory.turns[i].turn_id = i

\* a second session whose history has two turns or more
SecondSessionHasTurns == memory.session_id > 1 /\ Len(memory.turns) >= 2

\* C2: every reset_conversation leaves state INITIAL, no turns, an empty context and a
\* session identifier that differs from the one before the reset.
ResetStartsFreshSession ==
    [][ResetConversation =>
          /\ memory'.current_state = INITIAL
          /\ Len(memory'.turns) = 0
          /\ DOMAIN memory'.context_variables = {}
          /\ memory'.session_id # memory.session_id]_vars

\* a session just reset, after a session in which a turn was answered
ResetAfterTurns ==
    /\ memory.session_id > 1
    /\ Len(memory.turns) = 0
    /\ last_response.kind \notin {"none", "didnt_catch_that"}

---------------------------------------------------------------------------
(* Properties of decide_action (SpecDecide).                               *)

Decided == decide_result # "pending"

\* C3: decide_action returns ASK_FOLLOWUP whenever missing_slots is non-empty, whatever
\* the state and the intents.
MissingSlotsDominate ==
    (Decided /\ Len(decide_args.missing_slots) > 0) => decide_result = ASK_FOLLOWUP

\* a call with a missing slot and a calculation intent, decided
FollowupDespiteCalcIntent ==
    /\ Decided
    /\ Len(decide_args.missing_slots) > 0
    /\ InList("calc_intent", decide_args.intents)
    /\ InList("product_query", decide_args.intents)

\* C4: with no missing slot the first match wins: calc_intent gives CALL_CALCULATOR,
\* else product_query gives CALL_RAG, else outlet_query gives CALL_TEXT2SQL, else FINISH.
FirstIntentWins ==
    (Decided /\ Len(decide_args.missing_slots) = 0) =>
        decide_result =
            IF InList("calc_intent", decide_args.intents) THEN CALL_CALCULATOR
            ELSE IF InList("product_query", decide_args.intents) THEN CALL_RAG
            ELSE IF InList("outlet_query", decide_args.intents) THEN CALL_TEXT2SQL
            ELSE FINISH

\* a call with no missing slot, a product intent listed before a calculation intent,
\* decided
CalcBeatsProduct ==
    /\ Decided
    /\ Len(decide_args.missing_slots) = 0
    /\ decide_args.intents = <<"product_query", "calc_intent">>

---------------------------------------------------------------------------
(* Properties of the planner-driven bot (SpecAgentic).                     *)

\* process_input was called with a non-blank utterance in this step
AnswersUtterance ==
    \E user_input \in PlanUtterances, calc_ok \in BOOLEAN :
        /\ ~(Len(user_input) = 0 \/ IsBlank(user_input))
        /\ AgenticProcessInput(user_input, calc_ok)

\* C5: process_input of a non-blank utterance records exactly one turn, and the action
\* of every recorded turn is one member of Action.
OneActionPerTurn ==
    [][/\ AnswersUtterance =>
            /\ Len(agentic'.turns) = Len(agentic.turns) + 1
            /\ SubSeq(agentic'.turns, 1, Len(agentic.turns)) = agentic.turns
       /\ \A i \in 1..Len(agentic'.turns) : agentic'.turns[i].action_taken \in Action]_vars

\* a session with a follow-up question, then a calculation, then a goodbye
ThreeActionsTaken ==
    /\ Len(agentic.turns) = 3
    /\ agentic.turns[1].action_taken = ASK_FOLLOWUP
    /\ agentic.turns[2].action_taken = CALL_CALCULATOR
    /\ agentic.turns[3].action_taken = FINISH

---------------------------------------------------------------------------
(* Properties of the calculator tool (SpecTool).  An attempt is one call   *)
(* of call_calculator; the log holds, per attempt, its "call" event, the   *)
(* probe and the request it made, and its "result" event.                  *)

Retrying == tool_args # << >> /\ tool_args.entry = "call_calculator_with_retry"

\* the log positions where an attempt ended, and what ended it
AttemptEnds == {i \in 1..Len(log) : log[i].ev = "result"}

AttemptsMade == Cardinality({i \in 1..Len(log) : log[i].ev = "call"})

LastAttemptEnd == CHOOSE i \in AttemptEnds : \A j \in AttemptEnds : j <= i

\* the attempt ending at i timed out, could not connect, or got a 5xx
TransientAt(i) ==
    /\ log[i - 1].ev = "post"
    /\ \/ log[i - 1].outcome \in {"Timeout", "ConnectionError"}
       \/ log[i - 1].outcome = "response" /\ log[i - 1].status >= 500

\* the attempt ending at i got a 4xx, or was made with an empty expression
TerminalAt(i) ==
    \/ log[i - 1].ev = "call" /\ log[i - 1].blank
    \/ /\ log[i - 1].ev = "post"
       /\ log[i - 1].outcome = "response"
       /\ log[i - 1].status >= 400 /\ log[i - 1].status < 500

\* the attempt ending at i got a 200 with a numeric result
SuccessAt(i) ==
    /\ log[i - 1].ev = "post"
    /\ log[i - 1].outcome = "response" /\ log[i - 1].status = 200
    /\ log[i].value.type = "number"

Returned(value) == tool_return = [kind |-> "returned", value |-> value]

\* C6: after k <= max_retries transient failures in a row call_calculator_with_retry
\* makes another attempt, and when that attempt succeeds it returns the number, having
\* made exactly k + 1 attempts.
RetriesUntilSuccess ==
    (Retrying /\ AttemptEnds # {}) =>
        LET last == LastAttemptEnd
            k == Cardinality({i \in AttemptEnds : TransientAt(i)})
        IN  (\A i \in AttemptEnds \ {last} : TransientAt(i)) =>
                /\ (TransientAt(last) /\ k <= tool_args.max_retries) => tool_pc # "done"
                /\ SuccessAt(last) =>
                       /\ AttemptsMade = k + 1
                       /\ last = Len(log) \/ log[last + 1].ev = "return"
                       /\ tool_pc = "done" => Returned(log[last].value)

\* two transient failures, then a success, returned
SucceededOnThirdAttempt ==
    /\ Retrying /\ tool_args.max_retries = 2
    /\ tool_pc = "done"
    /\ AttemptsMade = 3
    /\ Cardinality({i \in AttemptEnds : TransientAt(i)}) = 2
    /\ SuccessAt(LastAttemptEnd)
    /\ Returned(Number(8))

\* C7: call_calculator_with_retry makes no attempt after a terminal error, whatever
\* max_retries is, and returns that error.
TerminalErrorEndsCall ==
    Retrying =>
        \A i \in AttemptEnds :
            TerminalAt(i) =>
                /\ i = LastAttemptEnd
                /\ i = Len(log) \/ (log[i + 1].ev = "return" /\ i + 1 = Len(log))
                /\ tool_pc \in {"called", "classify", "done"}
                /\ tool_pc = "done" => Returned(log[i].value)

\* a validation failure (422) on the first attempt, returned with two retries unused
ValidationFailureNotRetried ==
    /\ Retrying /\ tool_args.max_retries = 2
    /\ tool_pc = "done"
    /\ AttemptsMade = 1
    /\ \E i \in AttemptEnds : log[i - 1].ev = "post" /\ log[i - 1].status = 422

\* a returned call all of whose attempts failed transiently
AllAttemptsTransient ==
    /\ Retrying
    /\ tool_pc = "done"
    /\ \A i \in AttemptEnds : TransientAt(i)

RetryBudgetKept ==
    /\ Retrying => AttemptsMade <= tool_args.max_retries + 1
    /\ AllAttemptsTransient =>
           /\ AttemptsMade = tool_args.max_retries + 1
           /\ Cardinality(AttemptEnds) = AttemptsMade
           /\ Returned(log[LastAttemptEnd].value)
           /\ log[LastAttemptEnd].value \in
                  {Str(TimedOutMessage), Str(CannotConnectMessage), Str(ServerIssuesMessage)}

\* C8: call_calculator_with_retry terminates, never makes more than max_retries + 1
\* attempts, and when every attempt failed transiently it made exactly max_retries + 1
\* and returns the message of the last one as call_calculator produced it.
RetriesExhaustAndReturn ==
    /\ []RetryBudgetKept
    /\ (tool_pc = "loop") ~> (tool_pc = "done")

\* three attempts that all failed transiently, the last one by a timeout
ThreeTransientFailures ==
    /\ AllAttemptsTransient
    /\ tool_args.max_retries = 2
    /\ AttemptsMade = 3
    /\ Returned(Str(TimedOutMessage))

\* C9: in every attempt the health probe comes before the request; the request is sent
\* only right after a healthy probe of the same attempt, and an attempt whose probe is
\* not healthy sends no request and ends with the "not available" message.
ProbeBeforeRequest ==
    \A i \in 1..Len(log) :
        /\ log[i].ev = "post" =>
               i > 1 /\ log[i - 1].ev = "probe" /\ log[i - 1].outcome = "healthy"
        /\ log[i].ev = "probe" => i > 1 /\ log[i - 1].ev = "call" /\ ~log[i - 1].blank
        /\ (log[i].ev = "call" /\ ~log[i].blank /\ i < Len(log)) => log[i + 1].ev = "probe"
        /\ (log[i].ev = "probe" /\ log[i].outcome # "healthy") =>
               /\ i = Len(log) => tool_pc # "invoke"
               /\ i < Len(log) =>
                      log[i + 1] = [ev |-> "result", value |-> Str(NotAvailableMessage)]

\* an attempt whose probe raised, ended, and a later attempt that sent the request
UnhealthyThenHealthyAttempt ==
    \E i, j \in 1..Len(log) :
        /\ i < j
        /\ log[i].ev = "probe" /\ log[i].outcome = "exception"
        /\ log[i + 1].ev = "result"
        /\ log[j].ev = "post"

---------------------------------------------------------------------------
(* Properties of the three bots (SpecBots).                                *)

\* not user_input or not user_input.strip(); the empty text stands for None as well
BlankUtterance(user_input) == Len(user_input) = 0 \/ IsBlank(user_input)

\* a process_input call of each bot with a blank utterance, in this step
SequentialBlankStep ==
    /\ memory # << >>
    /\ \E user_input \in SeqUtterances : BlankUtterance(user_input) /\ ProcessInput(user_input)

AgenticBlankStep ==
    /\ agentic # << >>
    /\ \E user_input \in PlanUtterances, calc_ok \in BOOLEAN :
           BlankUtterance(user_input) /\ AgenticProcessInput(user_input, calc_ok)

CalculatorBlankStep ==
    /\ calculator # << >>
    /\ \E user_input \in CalcUtterances, healthy \in BOOLEAN, tool_value \in CalcToolValues :
           /\ BlankUtterance(user_input)
           /\ CalculatorProcessInput(user_input, healthy, tool_value)

\* C11: in every state of each of the three bots, process_input with an empty or
\* whitespace-only utterance returns the "didn't catch that" reply and changes neither
\* the conversation state nor the context.
BlankInputChangesNothing ==
    [][/\ SequentialBlankStep =>
            /\ last_response' = [kind |-> "didnt_catch_that"]
            /\ memory'.current_state = memory.current_state
            /\ memory'.context_variables = memory.context_variables
       /\ AgenticBlankStep =>
            /\ agentic_response' = [kind |-> "didnt_catch_that"]
            /\ agentic'.current_state = agentic.current_state
            /\ agentic'.context = agentic.context
       /\ CalculatorBlankStep =>
            /\ calculator_response' = [kind |-> "didnt_catch_that"]
            /\ calculator'.memory.current_state = calculator.memory.current_state
            /\ calculator'.memory.context = calculator.memory.context]_vars

\* the sequential bot answered a blank utterance while an outlet selection was pending
BlankAnsweredMidSelection ==
    /\ last_response = [kind |-> "didnt_catch_that"]
    /\ memory.current_state = OUTLET_SELECTION
    /\ has_context(memory, "inquiry_location")

\* C12: after process_input with an empty or whitespace-only utterance the attempt is in
\* the turn history: the turn count has grown by one.
BlankInputIsLogged ==
    [][/\ SequentialBlankStep => Len(memory'.turns) = Len(memory.turns) + 1
       /\ AgenticBlankStep => Len(agentic'.turns) = Len(agentic.turns) + 1
       /\ CalculatorBlankStep =>
            Len(calculator'.memory.turns) = Len(calculator.memory.turns) + 1]_vars

---------------------------------------------------------------------------
(* Properties of the sequential bot whose state a caller corrupted         *)
(* (SpecCorrupted).                                                        *)

\* process_input was called with a non-blank utterance in this step
SequentialAnswerStep(user_input) ==
    /\ user_input \in SeqUtterances
    /\ ~BlankUtterance(user_input)
    /\ ProcessInput(user_input)

\* C13: when the current state is outside ConversationState, process_input of a non-blank
\* utterance does what it does in state INITIAL: it returns a reply without raising and
\* leaves the session in a state of ConversationState.
CorruptedStateSelfHeals ==
    [][\A user_input \in SeqUtterances :
          (memory.current_state \notin ConversationState
             /\ SequentialAnswerStep(user_input)) =>
              /\ last_response'.kind # "raised"
              /\ memory'.current_state \in ConversationState
              /\ last_response' =
                     process_input(set_state(memory, INITIAL), user_input).response]_vars

---------------------------------------------------------------------------
(* Properties of the planner-driven bot (SpecAgentic), continued.          *)

\* C23: once a turn whose utterance has no missing slot is recorded, the context holds no
\* missing-slot set of an earlier turn; such a set stays in that turn's record only.
MissingSlotsNotPersisted ==
    (/\ agentic # << >>
     /\ Len(agentic.turns) >= 2
     /\ Len(agentic.turns[Len(agentic.turns)].missing_slots) = 0) =>
        "missing_slots" \notin DOMAIN agentic.context

---------------------------------------------------------------------------
(* Properties of the conversation flow of the sequential bot               *)
(* (SpecSequential).                                                       *)

KnownRegions == {"petaling_jaya", "kuala_lumpur"}

\* the utterance holds a switch marker and names a known region
IsTopicSwitch(user_input) ==
    LET f == FactsOf(user_input) IN
    /\ f.switch_marker
    /\ \E i \in 1..Len(f.entities.locations) : f.entities.locations[i] \in KnownRegions

\* the replies that greet or offer help and say nothing about an outlet or a region
GenericReplies == {[kind |-> "how_can_i_help"], [kind |-> "hello"]}

\* C14 as stated: in state COMPLETED process_input of any non-blank utterance returns a
\* generic greeting or help reply, does not raise and records a turn.
CompletedAnswersGenerically ==
    [][\A user_input \in SeqUtterances :
          (memory.current_state = COMPLETED /\ SequentialAnswerStep(user_input)) =>
              /\ last_response' \in GenericReplies
              /\ Len(memory'.turns) = Len(memory.turns) + 1]_vars

\* C14: in state COMPLETED process_input of a non-blank utterance that is not a topic
\* switch returns the generic help reply and stays COMPLETED; a topic switch is answered
\* by the switch; either way nothing is raised and one turn is recorded.
CompletedIsSoftTerminal ==
    [][\A user_input \in SeqUtterances :
          (memory.current_state = COMPLETED /\ SequentialAnswerStep(user_input)) =>
              /\ last_response'.kind # "raised"
              /\ Len(memory'.turns) = Len(memory.turns) + 1
              /\ memory'.turns[Len(memory'.turns)].user_input = user_input
              /\ IF IsTopicSwitch(user_input)
                 THEN /\ last_response'.kind = "switching_to"
                      /\ memory'.current_state = OUTLET_SELECTION
                 ELSE /\ last_response' = [kind |-> "how_can_i_help"]
                      /\ memory'.current_state = COMPLETED
                      /\ memory'.context_variables = memory.context_variables]_vars

\* a completed conversation that was then asked an outlet question and gave the help reply
AnsweredAfterCompleted ==
    /\ memory # << >>
    /\ Len(memory.turns) = 3
    /\ memory.turns[2].state = COMPLETED
    /\ memory.turns[3].user_input = <<"I","s"," ","t","h","e","r","e"," ","a","n"," ","o","u","t",
                                      "l","e","t"," ","i","n"," ","P","e","t","a","l","i","n","g",
                                      " ","J","a","y","a","?">>
    /\ memory.turns[3].bot_response = [kind |-> "how_can_i_help"]
    /\ memory.current_state = COMPLETED

\* the utterance is an outlet inquiry that names the region and no outlet of its own
IsRegionInquiry(user_input, region) ==
    LET f == FactsOf(user_input) IN
    /\ InList("outlet_inquiry", f.entities.intents)
    /\ InList(region, f.entities.locations)
    /\ ~InList("ss2", f.entities.locations) /\ ~f.says_ss2
    /\ ~InList("klcc", f.entities.locations) /\ ~f.says_klcc

\* the outlets of the region that the utterance names
OutletsNamed(user_input, region) ==
    {i \in 1..Len(OUTLETS_DB[region]) : OUTLETS_DB[region][i].name \in FactsOf(user_input).matching}

\* the utterance names an outlet of the region and asks its opening time, and nothing else
IsOpeningTimeQuestion(user_input, region) ==
    LET f == FactsOf(user_input) IN
    /\ OutletsNamed(user_input, region) # {}
    /\ InList("opening_time", f.entities.intents)
    /\ ~f.farewell
    /\ ~IsTopicSwitch(user_input)

IsFarewell(user_input) == FactsOf(user_input).farewell /\ ~IsTopicSwitch(user_input)

\* C15: from INITIAL an outlet inquiry naming a region with more than one outlet moves to
\* OUTLET_SELECTION, sets inquiry_location and lists the region's outlet names; then an
\* utterance naming one of these outlets with an opening-time question moves to
\* INFORMATION_REQUEST and the reply gives that outlet's opening time; then a farewell
\* moves to COMPLETED; each of the three records one turn.
HappyPath ==
    [][\A user_input \in SeqUtterances :
          SequentialAnswerStep(user_input) =>
              /\ \A region \in KnownRegions :
                    (/\ memory.current_state = INITIAL
                     /\ IsRegionInquiry(user_input, region)
                     /\ Len(OUTLETS_DB[region]) > 1) =>
                        /\ memory'.current_state = OUTLET_SELECTION
                        /\ has_context(memory', "inquiry_location")
                        /\ get_context(memory', "inquiry_location") = region
                        /\ last_response'.kind = "yes_which_outlet"
                        /\ last_response'.outlets = OutletNames(OUTLETS_DB[region])
                        /\ Len(memory'.turns) = Len(memory.turns) + 1
              /\ \A region \in KnownRegions :
                    (/\ memory.current_state = OUTLET_SELECTION
                     /\ has_context(memory, "inquiry_location")
                     /\ get_context(memory, "inquiry_location") = region
                     /\ IsOpeningTimeQuestion(user_input, region)) =>
                        /\ memory'.current_state = INFORMATION_REQUEST
                        /\ \E i \in OutletsNamed(user_input, region) :
                              /\ get_context(memory', "selected_outlet") = OUTLETS_DB[region][i]
                              /\ last_response'.kind = "opening_hours"
                              /\ last_response'.outlet = OUTLETS_DB[region][i].name
                              /\ last_response'.opens = OUTLETS_DB[region][i].opening_time
                        /\ Len(memory'.turns) = Len(memory.turns) + 1
              /\ (memory.current_state = INFORMATION_REQUEST /\ IsFarewell(user_input)) =>
                    /\ memory'.current_state = COMPLETED
                    /\ last_response' = [kind |-> "youre_welcome"]
                    /\ Len(memory'.turns) = Len(memory.turns) + 1]_vars

\* the conversation of the happy path, completed in three turns
HappyPathCompleted ==
    /\ memory # << >>
    /\ Len(memory.turns) = 3
    /\ memory.turns[1].user_input = <<"I","s"," ","t","h","e","r","e"," ","a","n"," ","o","u","t",
                                      "l","e","t"," ","i","n"," ","P","e","t","a","l","i","n","g",
                                      " ","J","a","y","a","?">>
    /\ memory.turns[1].state = OUTLET_SELECTION
    /\ memory.turns[2].user_input = <<"S","S"," ","2",","," ","w","h","a","t","'","s"," ","t","h",
                                      "e"," ","o","p","e","n","i","n","g"," ","t","i","m","e","?">>
    /\ memory.turns[2].state = INFORMATION_REQUEST
    /\ memory.turns[2].bot_response.kind = "opening_hours"
    /\ memory.turns[3].user_input = <<"T","h","a","n","k","s","!">>
    /\ memory.current_state = COMPLETED

\* the known regions the utterance names
RegionsNamed(user_input) ==
    {region \in KnownRegions : InList(region, FactsOf(user_input).entities.locations)}

\* C16: in every state but INITIAL an utterance with a switch marker that names a known
\* region moves the state to OUTLET_SELECTION and sets inquiry_location to the region
\* named, whatever the state's own handler would do; in INITIAL it is answered by the
\* handler of INITIAL, not by the switch.
TopicSwitchHasPriority ==
    [][\A user_input \in SeqUtterances :
          (IsTopicSwitch(user_input) /\ SequentialAnswerStep(user_input)) =>
              IF memory.current_state # INITIAL
              THEN /\ memory'.current_state = OUTLET_SELECTION
                   /\ has_context(memory', "inquiry_location")
                   /\ get_context(memory', "inquiry_location") \in RegionsNamed(user_input)
                   /\ last_response'.kind = "switching_to"
                   /\ last_response'.location = get_context(memory', "inquiry_location")
              ELSE /\ last_response'.kind # "switching_to"
                   /\ last_response' =
                          _handle_initial_state(memory, FactsOf(user_input)).response]_vars

\* a completed conversation that a topic switch took back to the outlet selection
SwitchedFromCompleted ==
    /\ memory # << >>
    /\ Len(memory.turns) = 3
    /\ memory.turns[2].state = COMPLETED
    /\ memory.turns[3].bot_response.kind = "switching_to"
    /\ memory.current_state = OUTLET_SELECTION
    /\ get_context(memory, "inquiry_location") = "kuala_lumpur"

\* C17: after a topic-switch turn the context holds the new inquiry_location and no
\* longer holds the outlet selected for the previous region.
TopicSwitchDiscardsOutlet ==
    [][\A user_input \in SeqUtterances :
          (/\ memory.current_state # INITIAL
           /\ IsTopicSwitch(user_input)
           /\ SequentialAnswerStep(user_input)) =>
              /\ has_context(memory', "inquiry_location")
              /\ ~has_context(memory', "selected_outlet")]_vars

\* the turn of this step stored an outlet in selected_outlet that was not there before
ResolvesOutlet ==
    /\ has_context(memory', "selected_outlet")
    /\ \/ ~has_context(memory, "selected_outlet")
       \/ get_context(memory', "selected_outlet") # get_context(memory, "selected_outlet")

\* C18: whenever a turn sets selected_outlet, the state after the turn is
\* INFORMATION_REQUEST, whatever state it started in and whatever else the utterance holds.
ResolvedOutletAdvances ==
    [][\A user_input \in SeqUtterances :
          (SequentialAnswerStep(user_input) /\ ResolvesOutlet) =>
              memory'.current_state = INFORMATION_REQUEST]_vars

\* the utterance names no outlet of the region being selected from
NamesNoCandidate(user_input) ==
    /\ has_context(memory, "inquiry_location")
    /\ get_context(memory, "inquiry_location") \in KnownRegions
    /\ OutletsNamed(user_input, get_context(memory, "inquiry_location")) = {}

\* the help reply for the region, with state, inquiry_location and selected_outlet as
\* they were
HelpedWithCandidates ==
    /\ last_response' =
          [kind     |-> "not_that_outlet",
           location |-> get_context(memory, "inquiry_location"),
           outlets  |-> OutletNames(OUTLETS_DB[get_context(memory, "inquiry_location")])]
    /\ memory'.current_state = OUTLET_SELECTION
    /\ memory'.context_variables = memory.context_variables

\* C19 as stated: in OUTLET_SELECTION every utterance that names no candidate outlet of
\* the region gets the help reply listing the region's outlets, and state,
\* inquiry_location and selected_outlet stay as they were.
UnmatchedSelectionHelps ==
    [][\A user_input \in SeqUtterances :
          (/\ memory.current_state = OUTLET_SELECTION
           /\ SequentialAnswerStep(user_input)
           /\ NamesNoCandidate(user_input)) => HelpedWithCandidates]_vars

\* C19: the same for every such utterance that is not a topic switch; and in
\* OUTLET_SELECTION the region being selected from is always a known one.
UnmatchedSelectionHelpsUnlessSwitch ==
    [][\A user_input \in SeqUtterances :
          (memory.current_state = OUTLET_SELECTION /\ SequentialAnswerStep(user_input)) =>
              /\ has_context(memory, "inquiry_location")
              /\ get_context(memory, "inquiry_location") \in KnownRegions
              /\ (NamesNoCandidate(user_input) /\ ~IsTopicSwitch(user_input)) =>
                     HelpedWithCandidates]_vars

\* a selection from Petaling Jaya's outlets that was asked for KLCC and gave the help reply
HelpedAfterWrongOutlet ==
    /\ memory # << >>
    /\ Len(memory.turns) >= 2
    /\ memory.turns[Len(memory.turns) - 1].state = OUTLET_SELECTION
    /\ memory.turns[Len(memory.turns)].user_input = <<"K","L","C","C">>
    /\ memory.turns[Len(memory.turns)].bot_response.kind = "not_that_outlet"
    /\ get_context(memory, "inquiry_location") = "petaling_jaya"

---------------------------------------------------------------------------
(* Properties of the outlet selection (SpecSelection).                     *)

\* the turn of this step left the SS 2 Outlet in selected_outlet
PicksSS2 ==
    /\ has_context(memory', "selected_outlet")
    /\ get_context(memory', "selected_outlet").name = SS2OutletName

\* C20: in OUTLET_SELECTION an answer that mentions "ss" with a number other than 2 never
\* selects the SS 2 Outlet, also when it mentions "ss 2" or "ss2" as well; the SS 2
\* Outlet is selected only by an answer that mentions "ss 2" or "ss2" and no "ss" with
\* another number.
SS2Disambiguation ==
    [][\A phrase \in SelectionPhrases :
          SelectionInput(Render(phrase)) =>
              LET others == \E i \in 1..Len(phrase) : phrase[i].number \notin {<< >>, <<"2">>}
                  names2 == \E i \in 1..Len(phrase) : phrase[i].number = <<"2">>
              IN  /\ others => ~PicksSS2
                  /\ PicksSS2 => (names2 /\ ~others)]_vars

\* an answer naming both "ss 2" and "ss 21" was turned down, and the selection goes on
BothNumbersTurnedDown ==
    /\ memory # << >>
    /\ Len(memory.turns) = 2
    /\ memory.turns[2].user_input = <<"s","s"," ","2"," ","o","r"," ","s","s"," ","2","1">>
    /\ memory.turns[2].bot_response.kind = "not_that_outlet"
    /\ memory.current_state = OUTLET_SELECTION
    /\ ~has_context(memory, "selected_outlet")


\* C29: the turn history is append-only and its turns are immutable: a process_input call
\* with a non-blank utterance appends exactly one turn, and until a reset no step changes,
\* reorders or removes a turn recorded before.
TurnsAreAppendOnly ==
    /\ [][\A user_input \in SeqUtterances :
             SequentialAnswerStep(user_input) =>
                 /\ Len(memory'.turns) = Len(memory.turns) + 1
                 /\ memory'.turns[Len(memory'.turns)].user_input = user_input]_vars
    /\ [][~ResetConversation =>
             /\ Len(memory'.turns) >= Len(memory.turns)
             /\ SubSeq(memory'.turns, 1, Len(memory.turns)) = memory.turns]_vars

\* three turns are recorded and the first still shows the context and state of its time,
\* which the session has left since
FirstTurnKeptItsSnapshot ==
    /\ Len(memory.turns) = 3
    /\ memory.turns[1].context_variables # memory.context_variables
    /\ memory.turns[1].state # memory.current_state
    /\ memory.turns[2].context_variables # memory.turns[1].context_variables

\* C30: from INITIAL, the outlet inquiry 'Is there an outlet in PJ?', which names the
\* region by its abbreviation only, leaves the bot in LOCATION_INQUIRY.
AbbreviatedInquiryAsksLocation ==
    [][(memory.current_state = INITIAL
          /\ SequentialAnswerStep(<<"I","s"," ","t","h","e","r","e"," ","a","n"," ","o","u","t",
                                    "l","e","t"," ","i","n"," ","P","J","?">>)) =>
              memory'.current_state = LOCATION_INQUIRY]_vars

---------------------------------------------------------------------------
(* Properties of the sequential bot whose catalogue a caller replaces       *)
(* (SpecCatalog).                                                          *)

\* C27: process_input returns a reply for every non-blank utterance in every state, also
\* when the catalogue is empty, lacks the region the utterance names, or is malformed: no
\* exception leaves it.
NoExceptionEscapes ==
    [][\A user_input \in SeqUtterances :
          SequentialAnswerStep(user_input) => last_response'.kind # "raised"]_vars
---------------------------------------------------------------------------
(* Properties of several sessions side by side (SpecSessions).             *)

\* the memory a bot has after these calls when no other bot runs
RECURSIVE Alone(_, _)
Alone(m, calls) ==
    IF Len(calls) = 0 THEN m
    ELSE Alone(IF Head(calls).call = "reset_conversation"
               THEN reset_conversation(Head(calls).uuid)
               ELSE process_input(m, Head(calls).user_input).m,
               Tail(calls))

\* a step of this bot's thread
StepOf(bot) ==
    \/ \E user_input \in SessionUtterances : SessionRespond(bot, user_input)
    \/ SessionRecord(bot)
    \/ SessionReset(bot)

\* between its calls every bot is where it would be had it run alone, the session
\* identifiers differ, and the shared catalogue is as it was loaded
SessionsAsAlone ==
    /\ \A bot \in Bots :
          sessions[bot].pending = NoResponse =>
              sessions[bot].memory = Alone(NewConversationMemory(bot), sessions[bot].calls)
    /\ \A bot, other \in Bots :
          bot # other => sessions[bot].memory.session_id # sessions[other].memory.session_id
    /\ outlets_db = OUTLETS_DB

\* C21: under every interleaving of the calls of two bots, a step of one bot changes
\* nothing of the other (state, turns, context, session identifier), every bot ends each
\* call where it would had it run alone, and the shared catalogue is never written.
SessionsIsolated ==
    /\ []SessionsAsAlone
    /\ [][\A bot \in Bots :
             StepOf(bot) =>
                 /\ \A other \in Bots \ {bot} : sessions'[other] = sessions[other]
                 /\ outlets_db' = outlets_db]_vars

\* one bot completed a selection while the other, in the middle of a call, switched region
InterleavedConversations ==
    /\ sessions # << >>
    /\ sessions[1].memory.current_state = INFORMATION_REQUEST
    /\ Len(sessions[1].memory.turns) = 2
    /\ sessions[2].pending # NoResponse
    /\ Len(sessions[2].memory.turns) = 1
    /\ get_context(sessions[2].memory, "inquiry_location") = "kuala_lumpur"

---------------------------------------------------------------------------
(* Properties of extract_missing_slots called on its own (SpecExtract).    *)

---------------------------------------------------------------------------
(* Properties of the calculator bot (SpecCalculator).                      *)

\* process_input of the calculator bot with a non-blank utterance, in this step
CalculatorAnswerStep(user_input, healthy, tool_value) ==
    /\ ~BlankUtterance(user_input)
    /\ CalculatorProcessInput(user_input, healthy, tool_value)

\* the turns in which call_calculator_with_retry was called: those answered with its
\* result or with its error
ToolCallTurns ==
    {i \in 1..Len(calculator.memory.turns) :
        calculator.memory.turns[i].bot_response.kind \in
            {"the_result_is", "couldnt_calculate"}}

\* C24: when the finish action is executed in a session that made N calculator tool calls
\* before, the reply reports N.
FinishReportsToolCalls ==
    [][\A user_input \in CalcUtterances, healthy \in BOOLEAN, tool_value \in CalcToolValues :
          (/\ CalculatorAnswerStep(user_input, healthy, tool_value)
           /\ calculator'.memory.turns[Len(calculator'.memory.turns)].action_taken = FINISH
           /\ Cardinality(ToolCallTurns) > 0) =>
              calculator_response' =
                  [kind |-> "goodbye_helped", calc_count |-> Cardinality(ToolCallTurns)]]_vars

\* this step recorded a turn for this utterance, as every non-blank process_input does
RecordsTurnOf(user_input) ==
    /\ Len(calculator'.memory.turns) = Len(calculator.memory.turns) + 1
    /\ calculator'.memory.turns[Len(calculator'.memory.turns)].user_input = Strip(user_input)

\* the turns whose call returned a number
NumericTurns ==
    {i \in 1..Len(calculator.memory.turns) :
        calculator.memory.turns[i].bot_response.kind = "the_result_is"}

\* this utterance makes the bot call the calculator
CallsCalculator(user_input) ==
    _decide_action(CalcFactsOf(user_input).intents, CalcFactsOf(user_input).missing_slots)
        = CALL_CALCULATOR

\* C25: the calculation history grows by exactly one entry on a turn whose calculator
\* call returned a number, 0 included, and stays as it is on every other turn; so its
\* length is the number of recorded turns with a numeric result.
HistoryCountsNumericResults ==
    /\ [](calculator # << >> =>
             Len(calculator.memory.calculation_history) = Cardinality(NumericTurns))
    /\ [][\A user_input \in CalcUtterances, healthy \in BOOLEAN,
             tool_value \in CalcToolValues :
             (/\ RecordsTurnOf(user_input)
              /\ CalculatorAnswerStep(user_input, healthy, tool_value)) =>
                 calculator'.memory.calculation_history =
                     IF /\ CallsCalculator(user_input)
                        /\ calculator.calculator_available \/ healthy
                        /\ tool_value.type = "number"
                     THEN Append(calculator.memory.calculation_history,
                                 [expression |-> Strip(user_input), result |-> tool_value])
                     ELSE calculator.memory.calculation_history]_vars

\* a result of 0 was recorded, and the failed calculation after it was not
ZeroRecordedErrorNot ==
    /\ calculator # << >>
    /\ Len(calculator.memory.turns) = 2
    /\ calculator.memory.turns[1].calculation_result = Number(0)
    /\ calculator.memory.turns[2].bot_response.kind = "couldnt_calculate"
    /\ Len(calculator.memory.calculation_history) = 1

\* the utterances that embed a complete expression in other words, with its value
EmbeddedExpressions ==
    { <<<<"W","h","a","t"," ","i","s"," ","1","5"," ","+"," ","2","5","?">>, 40>>, <<<<"C","a","l","c","u","l","a","t","e"," ","8"," ","*"," ",
                                        "7">>, 56>> }

\* C26: with the calculator service running, an utterance that embeds a complete
\* expression in other words is answered with the value of the expression, and one
\* calculation is recorded.
EmbeddedExpressionIsCalculated ==
    [][\A p \in EmbeddedExpressions :
          ServedProcessInput(p[1]) =>
              /\ calculator_response' = [kind |-> "the_result_is", result |-> p[2]]
              /\ Len(calculator'.memory.calculation_history) =
                     Len(calculator.memory.calculation_history) + 1]_vars

---------------------------------------------------------------------------
(* Properties of the planner-driven bot and the calculator bot              *)
(* (SpecPlanners).                                                         *)

\* the state the claim gives for each action
StateClaimedAfter(action_taken) ==
    CASE action_taken = ASK_FOLLOWUP -> WAITING_FOR_CLARIFICATION
      [] action_taken = FINISH -> COMPLETED
      [] action_taken \in {CALL_CALCULATOR, CALL_RAG, CALL_TEXT2SQL} -> PROCESSING

LastAction(turns) == turns[Len(turns)].action_taken

\* C28: in the planner-driven bot and the calculator bot the state after a non-blank
\* process_input is the one its action gives, whatever the state before: ASK_FOLLOWUP
\* gives WAITING_FOR_CLARIFICATION, FINISH gives COMPLETED, a tool call gives PROCESSING.
\* The steps that record a turn are the non-blank process_input calls.
StateFollowsAction ==
    /\ [][(agentic # << >> /\ Len(agentic'.turns) = Len(agentic.turns) + 1) =>
             agentic'.current_state = StateClaimedAfter(LastAction(agentic'.turns))]_vars
    /\ [][(/\ calculator # << >>
            /\ Len(calculator'.memory.turns) = Len(calculator.memory.turns) + 1) =>
             calculator'.memory.current_state =
                 StateClaimedAfter(LastAction(calculator'.memory.turns))]_vars
    /\ [](agentic # << >> /\ Len(agentic.turns) > 0 =>
             agentic.current_state = StateClaimedAfter(LastAction(agentic.turns)))
    /\ [](calculator # << >> /\ Len(calculator.memory.turns) > 0 =>
             calculator.memory.current_state =
                 StateClaimedAfter(LastAction(calculator.memory.turns)))

\* a calculation asked of a bot that had finished: it is processing again
ProcessingAfterCompleted ==
    /\ calculator # << >>
    /\ Len(calculator.memory.turns) = 2
    /\ calculator.memory.turns[1].action_taken = FINISH
    /\ calculator.memory.turns[2].action_taken = CALL_CALCULATOR
    /\ calculator.memory.current_state = PROCESSING

---------------------------------------------------------------------------
(* Properties of the direct outlet queries (SpecDirect).                   *)

\* the outlets an utterance names directly
NamedOutlets(user_input) ==
    LET f == FactsOf(user_input) IN
    {name \in {<<"S","S"," ","2"," ","O","u","t","l","e","t">>} : InList("ss2", f.entities.locations) \/ f.says_ss2}
        \cup {name \in {<<"K","L","C","C"," ","O","u","t","l","e","t">>} : InList("klcc", f.entities.locations) \/ f.says_klcc}

\* the region whose catalogue list holds the outlet
RegionOf(outlet) ==
    CHOOSE region \in DOMAIN OUTLETS_DB :
        \E i \in 1..Len(OUTLETS_DB[region]) : OUTLETS_DB[region][i] = outlet

\* the replies about one outlet
OutletReplies ==
    {"great_asking_about", "perfect_asking_about", "opening_hours", "address", "phone",
     "all_information"}

\* process_input was called with a non-blank utterance in this step
OutletAnswerStep(user_input) ==
    /\ ~BlankUtterance(user_input)
    /\ Len(memory'.turns) = Len(memory.turns) + 1
    /\ memory'.turns[Len(memory'.turns)].user_input = user_input
    /\ ProcessInput(user_input)

\* C31: in state INITIAL process_input of an utterance that names an outlet (SS 2 or
\* KLCC), with or without an outlet inquiry and a region, answers about that outlet:
\* selected_outlet is an outlet the utterance names, inquiry_location is the region of
\* that outlet, and the turn is recorded in neither OUTLET_SELECTION nor LOCATION_INQUIRY.
DirectOutletShortcut ==
    [][\A user_input \in OutletUtterances :
          (/\ memory.current_state = INITIAL
           /\ NamedOutlets(user_input) # {}
           /\ OutletAnswerStep(user_input)) =>
              /\ has_context(memory', "selected_outlet")
              /\ get_context(memory', "selected_outlet").name \in NamedOutlets(user_input)
              /\ get_context(memory', "inquiry_location")
                     = RegionOf(get_context(memory', "selected_outlet"))
              /\ memory'.current_state \notin {OUTLET_SELECTION, LOCATION_INQUIRY}
              /\ memory'.turns[Len(memory'.turns)].state
                     \notin {OUTLET_SELECTION, LOCATION_INQUIRY}
              /\ last_response'.kind \in OutletReplies
              /\ last_response'.outlet = get_context(memory', "selected_outlet").name]_vars

\* a conversation opened with an outlet inquiry that names both a region and SS 2 and
\* was answered about the SS 2 outlet
DirectInquiryAnswered ==
    /\ Len(memory.turns) = 1
    /\ memory.turns[1].user_input = <<"I","s"," ","t","h","e","r","e"," ","a","n"," ","o","u","t",
                                      "l","e","t"," ","i","n"," ","P","e","t","a","l","i","n","g",
                                      " ","J","a","y","a",","," ","S","S"," ","2","?">>
    /\ InList("outlet_inquiry", memory.turns[1].extracted_entities.intents)
    /\ InList("petaling_jaya", memory.turns[1].extracted_entities.locations)
    /\ memory.current_state = INFORMATION_REQUEST
    /\ has_context(memory, "selected_outlet")
    /\ get_context(memory, "selected_outlet").name = <<"S","S"," ","2"," ","O","u","t","l","e","t">>
    /\ get_context(memory, "inquiry_location") = "petaling_jaya"
    /\ last_response.kind = "great_asking_about"

\* the utterance names an outlet of another region and none of the region selected from
NamesOnlyOtherRegion(user_input) ==
    /\ has_context(memory, "inquiry_location")
    /\ get_context(memory, "inquiry_location") \in KnownRegions
    /\ OutletsNamed(user_input, get_context(memory, "inquiry_location")) = {}
    /\ \E region \in KnownRegions \ {get_context(memory, "inquiry_location")} :
           OutletsNamed(user_input, region) # {}

\* the outlet selected by the step belongs to the region that was being selected from
SelectedWithinRegion ==
    /\ has_context(memory', "selected_outlet")
    /\ get_context(memory', "inquiry_location") = get_context(memory, "inquiry_location")
    /\ \E i \in 1..Len(OUTLETS_DB[get_context(memory, "inquiry_location")]) :
           OUTLETS_DB[get_context(memory, "inquiry_location")][i]
               = get_context(memory', "selected_outlet")

\* the step selected no outlet: selected_outlet is as it was and no outlet is asked about
SelectedNothing ==
    /\ has_context(memory', "selected_outlet") = has_context(memory, "selected_outlet")
    /\ has_context(memory, "selected_outlet") =>
           get_context(memory', "selected_outlet") = get_context(memory, "selected_outlet")
    /\ memory'.current_state = OUTLET_SELECTION

\* C32 as stated: in OUTLET_SELECTION the outlet a turn selects is one of the catalogue
\* list of inquiry_location, and every utterance that names only an outlet of another
\* region selects nothing and gets the help reply listing the region's outlets.
OtherRegionOutletGetsHelp ==
    [][\A user_input \in OutletUtterances :
          (memory.current_state = OUTLET_SELECTION /\ OutletAnswerStep(user_input)) =>
              /\ memory'.current_state \in {INFORMATION_REQUEST, COMPLETED} =>
                     SelectedWithinRegion
              /\ NamesOnlyOtherRegion(user_input) =>
                     SelectedNothing /\ HelpedWithCandidates]_vars

\* C32: in OUTLET_SELECTION the outlet a turn selects is one of the catalogue list of
\* inquiry_location; an utterance that names only an outlet of another region selects
\* nothing, and unless it is a topic switch it gets the help reply listing the outlets of
\* the region, with state and context as they were.
SelectionScopedByRegion ==
    [][\A user_input \in OutletUtterances :
          (memory.current_state = OUTLET_SELECTION /\ OutletAnswerStep(user_input)) =>
              /\ memory'.current_state \in {INFORMATION_REQUEST, COMPLETED} =>
                     SelectedWithinRegion
              /\ NamesOnlyOtherRegion(user_input) =>
                     /\ SelectedNothing
                     /\ ~IsTopicSwitch(user_input) => HelpedWithCandidates]_vars

\* a selection from Kuala Lumpur's outlets that was asked for SS 2 and gave the help reply
SS2AskedInKualaLumpur ==
    /\ Len(memory.turns) >= 2
    /\ memory.turns[Len(memory.turns) - 1].state = OUTLET_SELECTION
    /\ memory.turns[Len(memory.turns) - 1].context_variables["inquiry_location"]
           = "kuala_lumpur"
    /\ memory.turns[Len(memory.turns)].user_input = <<"S","S"," ","2"," ","o","p","e","n","i","n",
                                                      "g"," ","h","o","u","r","s","?">>
    /\ memory.turns[Len(memory.turns)].bot_response.kind = "not_that_outlet"
    /\ memory.turns[Len(memory.turns)].bot_response.outlets = <<<<"K","L","C","C"," ","O","u","t",
                                                                  "l","e","t">>>>
    /\ memory.current_state = OUTLET_SELECTION
    /\ get_context(memory, "inquiry_location") = "kuala_lumpur"
---------------------------------------------------------------------------
(* Properties of the delay of call_calculator_with_retry and of its        *)
(* attempts against a service that is down (SpecTool).                     *)

\* the log positions of the delays
Delays == {i \in 1..Len(log) : log[i].ev = "sleep"}

\* the attempt ending at i returned an error string that holds no non-retryable keyword
FailedRetryablyAt(i) ==
    /\ log[i].ev = "result"
    /\ ~is_number(log[i].value)
    /\ ~is_non_retryable(log[i].value)

\* C33: call_calculator_with_retry sleeps only between attempts: every delay comes right
\* after an attempt that failed retryably and right before the next attempt, every
\* attempt but the first comes right after one delay, nothing is slept before the return,
\* and a finished call slept once less than it made attempts; call_calculator never
\* sleeps.
DelayOnlyBetweenAttempts ==
    /\ (tool_args # << >> /\ ~Retrying) => Delays = {}
    /\ Retrying =>
        /\ \A i \in Delays :
               /\ i > 1 /\ FailedRetryablyAt(i - 1)
               /\ i < Len(log) => log[i + 1].ev = "call"
               /\ i = Len(log) => tool_pc \in {"loop", "call"}
        /\ \A i \in 1..Len(log) :
               /\ log[i].ev = "call" => (i = 1 \/ log[i - 1].ev = "sleep")
               /\ log[i].ev = "return" => (i > 1 /\ log[i - 1].ev = "result")
        /\ tool_pc = "sleep" => tool_attempt < tool_args.max_retries
        /\ AttemptsMade > 0 => Cardinality(Delays) \in {AttemptsMade - 1, AttemptsMade}
        /\ tool_pc = "done" => Cardinality(Delays) = AttemptsMade - 1

\* a finished call of three attempts and two delays whose last attempt succeeded
TwoDelaysThreeAttempts ==
    /\ Retrying /\ tool_pc = "done"
    /\ AttemptsMade = 3
    /\ Cardinality(Delays) = 2
    /\ SuccessAt(LastAttemptEnd)
    /\ log[Len(log)].ev = "return"

\* every attempt so far was made with a non-blank expression and probed a service that
\* was not healthy
UnhealthyThroughout ==
    /\ Retrying
    /\ AttemptsMade > 0
    /\ \A i \in 1..Len(log) :
           /\ log[i].ev = "call" => ~log[i].blank
           /\ log[i].ev = "probe" => log[i].outcome # "healthy"

Probes == {i \in 1..Len(log) : log[i].ev = "probe"}

\* C40: while every probe reports the service unhealthy, call_calculator_with_retry sends
\* no request, ends every attempt with the "not available" message and goes on to the
\* next attempt; the finished call made max_retries + 1 attempts, each with one probe,
\* slept between them and returns the "not available" message.
UnhealthyProbeIsRetried ==
    UnhealthyThroughout =>
        /\ \A i \in 1..Len(log) : log[i].ev # "post"
        /\ \A i \in AttemptEnds :
               /\ log[i].value = Str(NotAvailableMessage)
               /\ log[i - 1].ev = "probe"
               /\ FailedRetryablyAt(i)
        /\ tool_pc = "done" =>
               /\ AttemptsMade = tool_args.max_retries + 1
               /\ Cardinality(Probes) = tool_args.max_retries + 1
               /\ Cardinality(Delays) = tool_args.max_retries
               /\ Returned(Str(NotAvailableMessage))

\* a finished call with two retries whose three probes all found the service down
ThreeUnhealthyProbes ==
    /\ UnhealthyThroughout
    /\ tool_args.max_retries = 2
    /\ tool_pc = "done"
    /\ Cardinality(Probes) = 3
    /\ Cardinality(Delays) = 2
    /\ Returned(Str(NotAvailableMessage))
---------------------------------------------------------------------------
(* Properties of the calculator bot's decision (SpecCalcDecide).           *)

\* the replies given after call_calculator_with_retry was called, or would have been
\* had the service been up
CalculatorReplies == {"the_result_is", "couldnt_calculate", "calculator_unavailable"}

\* C34: _decide_action of the calculator bot takes the first row that applies: missing
\* slots give ASK_FOLLOWUP; else a goodbye gives FINISH, also next to a calculation
\* intent, and the reply is no calculation; else a calculation intent gives
\* CALL_CALCULATOR; else a greeting gives FINISH; else ASK_FOLLOWUP.
CalculatorDecisionTable ==
    Len(fn_returns) > 0 =>
        LET intents == fn_args.intents
            decided == fn_returns[1].action
            missing == Len(fn_args.missing_slots) > 0
            goodbye == InList("goodbye", intents)
            calc    == InList("calc_intent", intents)
            greets  == InList("greeting", intents)
        IN  /\ missing => decided = ASK_FOLLOWUP
            /\ (~missing /\ goodbye) =>
                   /\ decided = FINISH
                   /\ fn_returns[1].response.kind \notin CalculatorReplies
            /\ (~missing /\ ~goodbye /\ calc) => decided = CALL_CALCULATOR
            /\ (~missing /\ ~goodbye /\ ~calc /\ greets) => decided = FINISH
            /\ (~missing /\ ~goodbye /\ ~calc /\ ~greets) =>
                   decided = ASK_FOLLOWUP /\ decided # FINISH

\* a goodbye next to a calculation intent, answered with the goodbye
GoodbyeBeatsCalculation ==
    /\ Len(fn_returns) > 0
    /\ fn_args.intents = <<"calc_intent", "goodbye">>
    /\ fn_args.missing_slots = << >>
    /\ fn_returns[1].action = FINISH
    /\ fn_returns[1].response.kind = "goodbye"
---------------------------------------------------------------------------
(* Invariants of the sequential bot's state and context (SpecSequential).  *)

\* the outlet is one of the catalogue list of the region
InCatalogList(outlet, region) ==
    /\ region \in DOMAIN OUTLETS_DB
    /\ \E i \in 1..Len(OUTLETS_DB[region]) : OUTLETS_DB[region][i] = outlet

\* C35: whenever the state is INFORMATION_REQUEST or COMPLETED, selected_outlet is set
\* and is one of the catalogue list of inquiry_location.
AnsweringStatesHaveOutlet ==
    memory.current_state \in {INFORMATION_REQUEST, COMPLETED} =>
        /\ has_context(memory, "selected_outlet")
        /\ has_context(memory, "inquiry_location")
        /\ InCatalogList(get_context(memory, "selected_outlet"),
                         get_context(memory, "inquiry_location"))

\* an outlet of Kuala Lumpur being asked about in a conversation that began with
\* Petaling Jaya
AnsweringAfterSwitch ==
    /\ Len(memory.turns) = 3
    /\ "inquiry_location" \in DOMAIN memory.turns[1].context_variables
    /\ memory.turns[1].context_variables["inquiry_location"] = "petaling_jaya"
    /\ memory.turns[2].bot_response.kind = "switching_to"
    /\ memory.current_state = INFORMATION_REQUEST
    /\ get_context(memory, "inquiry_location") = "kuala_lumpur"
    /\ get_context(memory, "selected_outlet").name = <<"K","L","C","C"," ","O","u","t","l","e","t">>

\* C36: whenever the state is OUTLET_SELECTION, inquiry_location is set to a region key
\* of the catalogue, and no turn was answered with the "not sure which outlet" fallback
\* of _handle_outlet_selection.
SelectionHasRegion ==
    /\ memory.current_state = OUTLET_SELECTION =>
           /\ has_context(memory, "inquiry_location")
           /\ get_context(memory, "inquiry_location") \in DOMAIN memory.outlets_db
    /\ last_response.kind # "not_sure_which_outlet"
    /\ \A i \in 1..Len(memory.turns) :
           memory.turns[i].bot_response.kind # "not_sure_which_outlet"

\* a selection from Kuala Lumpur's outlets entered by a switch while the SS 2 outlet was
\* being asked about
SelectingAfterSwitch ==
    /\ Len(memory.turns) = 2
    /\ memory.turns[1].state = INFORMATION_REQUEST
    /\ memory.turns[2].state = OUTLET_SELECTION
    /\ memory.current_state = OUTLET_SELECTION
    /\ get_context(memory, "inquiry_location") = "kuala_lumpur"
    /\ has_context(memory, "selected_outlet")

---------------------------------------------------------------------------
(* The entry state of the three bots (SpecBots).                           *)

\* C37: in each of the three bots a step that moves the state into INITIAL from another
\* state is a reset, which starts a new session without turns; and in the planner-driven
\* bot and the calculator bot the state is not INITIAL once a turn is recorded, that is,
\* after a non-blank process_input.
InitialIsEntryOnly ==
    /\ [][(/\ memory # << >>
           /\ memory.current_state # INITIAL
           /\ memory'.current_state = INITIAL) =>
              /\ memory' = reset_conversation(uuids_drawn')
              /\ memory'.session_id # memory.session_id]_vars
    /\ [][(/\ agentic # << >>
           /\ agentic.current_state # INITIAL
           /\ agentic'.current_state = INITIAL) =>
              /\ Len(agentic'.turns) = 0
              /\ agentic'.session_id # agentic.session_id]_vars
    /\ [][(/\ calculator # << >>
           /\ calculator.memory.current_state # INITIAL
           /\ calculator'.memory.current_state = INITIAL) =>
              /\ Len(calculator'.memory.turns) = 0
              /\ calculator'.memory.session_id # calculator.memory.session_id]_vars
    /\ [](agentic # << >> /\ Len(agentic.turns) > 0 => agentic.current_state # INITIAL)
    /\ [](calculator # << >> /\ Len(calculator.memory.turns) > 0 =>
             calculator.memory.current_state # INITIAL)

\* a sequential bot back in INITIAL by a reset made while it asked which outlet was meant
ResetWhileSelecting ==
    /\ memory # << >>
    /\ memory.session_id = 2
    /\ memory.current_state = INITIAL
    /\ Len(memory.turns) = 0
    /\ last_response.kind = "yes_which_outlet"
---------------------------------------------------------------------------
(* How the sequential bot enters and leaves COMPLETED (SpecSequential).    *)

\* the step recorded a turn for this utterance
RecordedTurnOf(user_input) ==
    /\ Len(memory'.turns) = Len(memory.turns) + 1
    /\ memory'.turns[Len(memory'.turns)].user_input = user_input

\* the step is a reset_conversation
IsReset ==
    /\ memory' = reset_conversation(uuids_drawn')
    /\ uuids_drawn' = uuids_drawn + 1

\* C38: COMPLETED is left only by a topic switch or a reset: a step that leaves it is a
\* reset or records the turn of a topic switch, and from COMPLETED process_input of a
\* non-blank utterance that is not a topic switch keeps the state COMPLETED and the
\* context as it was and appends one turn.
CompletedLeftBySwitchOrReset ==
    /\ [][(memory.current_state = COMPLETED /\ memory'.current_state # COMPLETED) =>
              \/ IsReset
              \/ \E user_input \in SeqUtterances :
                     IsTopicSwitch(user_input) /\ RecordedTurnOf(user_input)]_vars
    /\ [][\A user_input \in SeqUtterances :
              (/\ memory.current_state = COMPLETED
               /\ ~BlankUtterance(user_input)
               /\ ~IsTopicSwitch(user_input)
               /\ ProcessInput(user_input)) =>
                  /\ memory'.current_state = COMPLETED
                  /\ memory'.context_variables = memory.context_variables
                  /\ RecordedTurnOf(user_input)
                  /\ SubSeq(memory'.turns, 1, Len(memory.turns)) = memory.turns]_vars

\* a completed conversation that was then told the name of another outlet and stayed
\* completed, with the outlet it had
OutletNamedAfterCompleted ==
    /\ Len(memory.turns) = 3
    /\ memory.turns[2].state = COMPLETED
    /\ memory.turns[3].user_input = <<"K","L","C","C">>
    /\ memory.turns[3].state = COMPLETED
    /\ memory.turns[3].context_variables = memory.turns[2].context_variables
    /\ memory.current_state = COMPLETED
    /\ get_context(memory, "selected_outlet").name = <<"S","S"," ","2"," ","O","u","t","l","e","t">>

\* the outlets the utterance of the last recorded turn names, to the direct branches of
\* _handle_initial_state or to the patterns of _handle_outlet_selection
OutletsOfLastTurn(turns) ==
    NamedOutlets(turns[Len(turns)].user_input)
        \cup FactsOf(turns[Len(turns)].user_input).matching

\* C39: a step that moves the state to COMPLETED records a turn whose utterance holds a
\* farewell word, with selected_outlet set, and gives the closing reply; from a state
\* other than INFORMATION_REQUEST it does so only when the same utterance named the
\* outlet that is now selected.  In INFORMATION_REQUEST an utterance with a farewell
\* word that is no topic switch is answered by the closing reply and completes the
\* conversation, whatever question it holds besides.
CompletedOnlyByFarewell ==
    /\ [][(memory.current_state # COMPLETED /\ memory'.current_state = COMPLETED) =>
              /\ Len(memory'.turns) = Len(memory.turns) + 1
              /\ FactsOf(memory'.turns[Len(memory'.turns)].user_input).farewell
              /\ has_context(memory', "selected_outlet")
              /\ last_response' = [kind |-> "youre_welcome"]
              /\ memory.current_state # INFORMATION_REQUEST =>
                     get_context(memory', "selected_outlet").name
                         \in OutletsOfLastTurn(memory'.turns)]_vars
    /\ [][\A user_input \in SeqUtterances :
              (/\ memory.current_state = INFORMATION_REQUEST
               /\ IsFarewell(user_input)
               /\ RecordedTurnOf(user_input)
               /\ ProcessInput(user_input)) =>
                  /\ memory'.current_state = COMPLETED
                  /\ last_response' = [kind |-> "youre_welcome"]]_vars

\* a conversation completed by its first utterance, which named the outlet, asked its
\* opening time and said thanks
CompletedInOneTurn ==
    /\ Len(memory.turns) = 1
    /\ memory.turns[1].user_input = <<"S","S"," ","2"," ","o","p","e","n","i","n","g"," ","t","i",
                                      "m","e",","," ","t","h","a","n","k","s">>
    /\ InList("opening_time", memory.turns[1].extracted_entities.intents)
    /\ memory.turns[1].bot_response = [kind |-> "youre_welcome"]
    /\ memory.current_state = COMPLETED
    /\ get_context(memory, "selected_outlet").name = <<"S","S"," ","2"," ","O","u","t","l","e","t">>
=============================================================================
